---- MODULE Spec2Model ----
(***************************************************************************)
(* Market-data ingestion core of the footprint repository:                 *)
(*   exchange/src/depth.rs          Depth, LocalDepthCache                  *)
(*   exchange/src/adapter/forex.rs  connect_market_stream, try_resync,      *)
(*                                  connect_kline_stream, ForexLimiter,     *)
(*                                  new_depth_cache, fetch_depth, calc_qty, *)
(*                                  the REST helpers                        *)
(*   exchange/src/connect.rs        connect_ws                              *)
(* and, of the user interface, src/modal/layout_manager.rs (LayoutManager) *)
(* and src/modal/audio.rs with data/src/audio.rs (AudioStream).            *)
(*                                                                         *)
(* Quantities (f32 in the source) are fixed-point numbers counted in       *)
(* 1/QtyDenom units; raw prices are whole numbers.  The specifications:    *)
(*   Spec         the market stream task (connect loop, frame handler,     *)
(*                resync) with its output channel and a consumer;          *)
(*   SpecStreams  either the market stream task or the kline stream task;  *)
(*   SpecDepth    a LocalDepthCache driven by arbitrary Snapshot / Diff    *)
(*                updates;                                                 *)
(*   SpecArc      the Arc<Depth> of the cache, the clones held by events   *)
(*                and the two statements of an update;                     *)
(*   SpecLimiter  the ForexLimiter under requests, responses and refills;  *)
(*   SpecRest     one call of a REST helper, from the limiter to its       *)
(*                result;                                                  *)
(*   SpecConnect  one call of connect_ws through its three stages;         *)
(*   SpecMid      Depth::mid_price on a book;                              *)
(*   SpecQty      calc_qty on a raw quantity and price;                    *)
(*   SpecLive     Spec with the fairness of the task's scheduling;         *)
(*   SpecOi       the request fetch_historical_oi builds from a range;     *)
(*   SpecLayout   LayoutManager::update under its messages;                *)
(*   SpecAudio    AudioStream::update of the audio settings.               *)
(***************************************************************************)
EXTENDS Integers, Sequences, FiniteSets, TLC

VARIABLES
    state,              \* connect.rs State: "Disconnected" | "Connected"
    orderbook,          \* LocalDepthCache owned by the stream task
    trades_buffer,      \* Vec<Trade>
    already_fetching,   \* re-entrancy flag of try_resync
    prev_id,            \* final_id of the last applied diff, 0 after a snapshot
    size_in_quote_ccy,  \* volume_size_unit() == SizeUnit::Quote
    pc,                 \* position of the stream task
    de_depth,           \* the diff being handled while try_resync is awaited
    resync_tasks,       \* spawned resync fetch tasks that have not completed
    output,             \* mpsc channel of Events to the consumer
    told,               \* the last Connected / Disconnected event sent on it
    cache,              \* SpecDepth: the LocalDepthCache under test
    new_depth,          \* SpecDepth: argument of the last LocalDepthCache::update
    old_cache,          \* SpecDepth: the cache before that update
    heap,               \* SpecArc: the Depth values behind the live Arcs
    depth_arc,          \* SpecArc: the Arc<Depth> held by the cache
    handles,            \* SpecArc: the Arc<Depth> clones held by events
    arc_pc,             \* SpecArc: position inside LocalDepthCache::update
    arc_upd,            \* SpecArc: the update being applied
    kline_state,        \* kline stream: "Disconnected" | "Connected"
    kline_pc,           \* kline stream: position of the task ("off": not spawned)
    kline_output,       \* kline stream: mpsc channel of Events
    kline_told,         \* kline stream: the last Connected / Disconnected sent
    limiter,            \* SpecLimiter: FOREX_LIMITER
    limiter_call,       \* SpecLimiter: the last call on the limiter and its result
    limiter_ledger,     \* SpecLimiter: what a caller knows of the current window
    rest,               \* SpecRest: the REST helper being run and its position
    rest_response,      \* SpecRest: the HTTP response it received
    rest_result,        \* SpecRest: the Result it returned
    conn,               \* SpecConnect: a call of connect_ws
    mid,                \* SpecMid: a call of Depth::mid_price
    qty_call,           \* SpecQty: a call of calc_qty
    oi,                 \* SpecOi: a call of fetch_historical_oi
    lm,                 \* SpecLayout: the LayoutManager and the Uuids made
    audio               \* SpecAudio: the AudioStream of the audio settings

vars == <<state, orderbook, trades_buffer, already_fetching, prev_id,
          size_in_quote_ccy, pc, de_depth, resync_tasks, output, told,
          cache, new_depth, old_cache,
          heap, depth_arc, handles, arc_pc, arc_upd,
          kline_state, kline_pc, kline_output, kline_told,
          limiter, limiter_call, limiter_ledger,
          rest, rest_response, rest_result, conn, mid, qty_call, oi, lm, audio>>

streamVars == <<state, orderbook, trades_buffer, already_fetching, prev_id,
                size_in_quote_ccy, pc, de_depth, resync_tasks, output, told>>

depthVars == <<cache, new_depth, old_cache>>

arcVars == <<heap, depth_arc, handles, arc_pc, arc_upd>>

klineVars == <<kline_state, kline_pc, kline_output, kline_told>>

limiterVars == <<limiter, limiter_call, limiter_ledger>>

restVars == <<rest, rest_response, rest_result>>

\* The variables the market stream task does not touch.
notStreamVars == <<depthVars, arcVars, klineVars, limiterVars, restVars, conn, mid, qty_call,
                    oi, lm, audio>>

\* The variables the SpecDepth harness does not touch.
notDepthVars == <<streamVars, arcVars, klineVars, limiterVars, restVars, conn, mid, qty_call,
                   oi, lm, audio>>

\* The variables the SpecArc harness does not touch.
notArcVars == <<streamVars, depthVars, klineVars, limiterVars, restVars, conn, mid, qty_call,
                 oi, lm, audio>>

\* The variables the kline stream task does not touch.
notKlineVars == <<streamVars, depthVars, arcVars, limiterVars, restVars, conn, mid, qty_call,
                   oi, lm, audio>>

\* The variables the SpecLimiter harness does not touch.
notLimiterVars == <<streamVars, depthVars, arcVars, klineVars, restVars, conn, mid, qty_call,
                     oi, lm, audio>>

\* The variables the SpecRest harness does not touch.
notRestVars == <<streamVars, depthVars, arcVars, klineVars,
                 limiter_call, limiter_ledger, conn, mid, qty_call, oi, lm,
                  audio>>

\* The variables the SpecConnect harness does not touch.
notConnVars == <<streamVars, depthVars, arcVars, klineVars, limiterVars, restVars,
                 mid, qty_call, oi, lm, audio>>

\* The variables the SpecMid harness does not touch.
notMidVars == <<streamVars, depthVars, arcVars, klineVars, limiterVars, restVars,
                conn, qty_call, oi, lm, audio>>

\* The variables the SpecQty harness does not touch.
notQtyVars == <<streamVars, depthVars, arcVars, klineVars, limiterVars, restVars,
                conn, mid, oi, lm, audio>>

\* The variables the SpecOi harness does not touch.
notOiVars == <<state, orderbook, trades_buffer, already_fetching, prev_id,
               size_in_quote_ccy, pc, de_depth, resync_tasks, output, told,
               cache, new_depth, old_cache, heap, depth_arc, handles, arc_pc,
               arc_upd, kline_state, kline_pc, kline_output, kline_told,
               limiter, limiter_call, limiter_ledger, rest, rest_response,
               rest_result, conn, mid, qty_call, lm, audio>>

\* The variables the SpecLayout harness does not touch.
notLmVars == <<state, orderbook, trades_buffer, already_fetching, prev_id,
               size_in_quote_ccy, pc, de_depth, resync_tasks, output, told,
               cache, new_depth, old_cache, heap, depth_arc, handles, arc_pc,
               arc_upd, kline_state, kline_pc, kline_output, kline_told,
               limiter, limiter_call, limiter_ledger, rest, rest_response,
               rest_result, conn, mid, qty_call, oi, audio>>

\* The variables the SpecAudio harness does not touch.
notAudioVars == <<state, orderbook, trades_buffer, already_fetching, prev_id,
                  size_in_quote_ccy, pc, de_depth, resync_tasks, output,
                  told, cache, new_depth, old_cache, heap, depth_arc,
                  handles, arc_pc, arc_upd, kline_state, kline_pc,
                  kline_output, kline_told, limiter, limiter_call,
                  limiter_ledger, rest, rest_response, rest_result, conn,
                  mid, qty_call, oi, lm>>

---------------------------------------------------------------------------
\* Bounds of the model.

\* largest update id on the wire
MaxId == 3
\* longest bid list of a payload in SpecDepth
MaxOrders == 2
\* capacity of the output channel (stream::channel(100, ..), scaled down)
ChanCap == 1
\* longest trade batch
MaxTrades == 2
\* most Arc<Depth> clones held by events and consumers at one time
MaxHeld == 2

\* SpecLimiter: responses handled within one refill window.
MaxResponses == 2

\* One unit of quantity is 1/QtyDenom.
QtyDenom == 4

\* const LIMIT: usize
LIMIT == 2400

\* const LIMITER_BUFFER_PCT: f32 = 0.03, in percent
LIMITER_BUFFER_PCT == 3

\* ticker_info.min_ticksize, in raw price units
MinTick == 2

None == "None"

\* T of a depth REST response
SnapshotTimes == {1}

\* T of a depth diff frame
DiffTimes == {2}

OrderLists(S, n) == UNION {[1..k -> S] : k \in 0..n}

---------------------------------------------------------------------------
\* Price and quantity arithmetic.

\* Mutant of round_to_min_tick: the next multiple of t above p.
round_to_min_tick_NextTick(p, t) == (p \div t + 1) * t

\* Price::from_f32(p).round_to_min_tick(t): the nearest multiple of t.
round_to_min_tick(p, t) == ((2 * p + t) \div (2 * t)) * t

\* f32::round on a non-negative quantity: to the nearest whole number,
\* halves away from zero.
round(q) == ((2 * q + QtyDenom) \div (2 * QtyDenom)) * QtyDenom

\* Mutant of calc_qty: the size unit is looked at first.
calc_qty_UnitFirst(qty, price, csize, quote) ==
    IF quote THEN round(qty * price)
    ELSE IF csize # <<>> THEN qty * csize[1] ELSE qty

\* An Option<f32> is a sequence of length 0 (None) or 1 (Some).
calc_qty(qty, price, csize, quote) ==
    IF csize # <<>>
    THEN qty * csize[1]
    ELSE IF quote THEN round(qty * price) ELSE qty

\* .iter().map(|x| DeOrder { price: x.price, qty: calc_qty(..) }).collect()
NormOrders(orders, csize, quote) ==
    [i \in 1..Len(orders) |->
        [price |-> orders[i].price,
         qty   |-> calc_qty(orders[i].qty, orders[i].price, csize, quote)]]

---------------------------------------------------------------------------
\* depth.rs

EmptyMap == [p \in {} |-> 0]

EmptyDepth == [bids |-> EmptyMap, asks |-> EmptyMap]

\* LocalDepthCache::default()
DefaultCache == [last_update_id |-> 0, time |-> 0, depth |-> EmptyDepth]

MapInsert(m, k, v) == [x \in (DOMAIN m) \cup {k} |-> IF x = k THEN v ELSE m[x]]

MapRemove(m, k) == [x \in (DOMAIN m) \ {k} |-> m[x]]

\* Mutant of DiffOrder: a zero quantity is stored instead of removing the level.
DiffOrder_NoRemove(price_map, order, min_ticksize) ==
    MapInsert(price_map, round_to_min_tick(order.price, min_ticksize), order.qty)

\* One iteration of the closure of diff_price_levels.
DiffOrder(price_map, order, min_ticksize) ==
    LET price == round_to_min_tick(order.price, min_ticksize) IN
    IF order.qty = 0
    THEN MapRemove(price_map, price)
    ELSE MapInsert(price_map, price, order.qty)

RECURSIVE diff_price_levels(_, _, _)
diff_price_levels(price_map, orders, min_ticksize) ==
    IF orders = <<>>
    THEN price_map
    ELSE diff_price_levels(DiffOrder(price_map, Head(orders), min_ticksize),
                           Tail(orders), min_ticksize)

\* Mutant of Depth_update: the bid orders of the diff are applied to the ask
\* map as well.
Depth_update_BidsOnBothSides(depth, diff, min_ticksize) ==
    [bids |-> diff_price_levels(depth.bids, diff.bids, min_ticksize),
     asks |-> diff_price_levels(
                  diff_price_levels(depth.asks, diff.bids, min_ticksize),
                  diff.asks, min_ticksize)]

\* Depth::update
Depth_update(depth, diff, min_ticksize) ==
    [bids |-> diff_price_levels(depth.bids, diff.bids, min_ticksize),
     asks |-> diff_price_levels(depth.asks, diff.asks, min_ticksize)]

\* iter().map(..).collect::<BTreeMap<Price, f32>>(): one entry per rounded
\* price, holding the quantity of the last order of the list with that price.
CollectBTreeMap(orders, min_ticksize) ==
    LET key(i) == round_to_min_tick(orders[i].price, min_ticksize)
        keys   == {key(i) : i \in 1..Len(orders)}
        last(k) == CHOOSE i \in 1..Len(orders) :
                      /\ key(i) = k
                      /\ \A j \in 1..Len(orders) : key(j) = k => j <= i
    IN [k \in keys |-> orders[last(k)].qty]

\* Mutant of replace_all: the snapshot is merged into the old maps.
replace_all_Merge(depth, snapshot, min_ticksize) ==
    [bids |-> diff_price_levels(depth.bids, snapshot.bids, min_ticksize),
     asks |-> diff_price_levels(depth.asks, snapshot.asks, min_ticksize)]

\* Depth::replace_all
replace_all(depth, snapshot, min_ticksize) ==
    [bids |-> CollectBTreeMap(snapshot.bids, min_ticksize),
     asks |-> CollectBTreeMap(snapshot.asks, min_ticksize)]

\* BTreeMap::first_key_value / last_key_value: the least / greatest key.
first_key(price_map) == CHOOSE k \in DOMAIN price_map : \A x \in DOMAIN price_map : k <= x

last_key(price_map) == CHOOSE k \in DOMAIN price_map : \A x \in DOMAIN price_map : k >= x

\* Mutant of mid_price: the average of the highest ask and the highest bid.
mid_price_LastAsk(depth) ==
    IF DOMAIN depth.asks # {} /\ DOMAIN depth.bids # {}
    THEN <<(last_key(depth.asks) + last_key(depth.bids)) \div 2>>
    ELSE <<>>

\* Depth::mid_price: Option<Price>.  Price + Price and Price / 2 work on
\* the atomic units of the price.
mid_price(depth) ==
    IF DOMAIN depth.asks # {} /\ DOMAIN depth.bids # {}
    THEN <<(first_key(depth.asks) + last_key(depth.bids)) \div 2>>
    ELSE <<>>

Snapshot(p) == [kind |-> "Snapshot", payload |-> p]

Diff(p) == [kind |-> "Diff", payload |-> p]

\* No update has been made yet.
NoUpdate == [kind |-> "None"]

\* LocalDepthCache::update
LocalDepthCache_update(self, upd, min_ticksize) ==
    IF upd.kind = "Snapshot"
    THEN [last_update_id |-> upd.payload.last_update_id,
          time           |-> upd.payload.time,
          depth          |-> replace_all(self.depth, upd.payload, min_ticksize)]
    ELSE [last_update_id |-> upd.payload.last_update_id,
          time           |-> upd.payload.time,
          depth          |-> Depth_update(self.depth, upd.payload, min_ticksize)]

---------------------------------------------------------------------------
\* adapter/forex.rs: payloads on the wire.

\* contract_size of connect_market_stream
contract_size == <<>>

\* Books carried by the depth payloads of the stream (raw, before calc_qty):
\* one with a bid of 0.25 at price 1 (which calc_qty turns into 0 when sizes
\* are in quote currency) and an ask, and one with a bid of quantity 0.
StreamBooks ==
    { [bids |-> <<[price |-> 1, qty |-> 1]>>,
       asks |-> <<[price |-> 3, qty |-> 1]>>],
      [bids |-> <<[price |-> 2, qty |-> 0]>>, asks |-> <<>>] }

\* FetchedPerpDepth: the body of a depth REST response; its lastUpdateId
\* may be ahead of every diff on the wire.
FetchedDepths ==
    { [update_id |-> i, time |-> t, bids |-> b.bids, asks |-> b.asks] :
        i \in 0..(MaxId + 1), t \in SnapshotTimes, b \in StreamBooks }

\* The (pu, U, u) of a depth diff frame on the wire: pu < U <= u, and one
\* frame that follows the last of them.
WireIds ==
    {x \in (0..MaxId) \X (0..MaxId) \X (0..MaxId) : x[1] < x[2] /\ x[2] <= x[3]}
      \cup {<<MaxId, MaxId + 1, MaxId + 1>>}

\* PerpDepth: a depth diff frame
PerpDepths ==
    { [time |-> t, first_id |-> ids[2], final_id |-> ids[3],
       prev_final_id |-> ids[1], bids |-> b.bids, asks |-> b.asks] :
        t \in DiffTimes, ids \in WireIds, b \in StreamBooks }

\* SonicTrade: an aggTrade frame
SonicTrades == [time : {1}, price : {3}, qty : {1}, is_sell : BOOLEAN]

\* The DepthPayload fetch_depth builds from the response.
fetch_depth(fetched, csize, quote) ==
    [last_update_id |-> fetched.update_id,
     time           |-> fetched.time,
     bids           |-> NormOrders(fetched.bids, csize, quote),
     asks           |-> NormOrders(fetched.asks, csize, quote)]

new_depth_cache(de, csize, quote) ==
    [last_update_id |-> de.final_id,
     time           |-> de.time,
     bids           |-> NormOrders(de.bids, csize, quote),
     asks           |-> NormOrders(de.asks, csize, quote)]

\* Events
EvConnected == [tag |-> "Connected"]

EvDisconnected(reason) == [tag |-> "Disconnected", reason |-> reason]

EvDepthReceived(time, depth, trades) ==
    [tag |-> "DepthReceived", time |-> time, depth |-> depth, trades |-> trades]

EvKlineReceived(ticker, timeframe, kline) ==
    [tag |-> "KlineReceived", ticker |-> ticker, timeframe |-> timeframe,
     kline |-> kline]

\* output.send(ev).await: completes when the channel has room.
CanSend == Len(output) < ChanCap

Send(ev) ==
    /\ output' = Append(output, ev)
    /\ told' = IF ev.tag \in {"Connected", "Disconnected"} THEN ev.tag ELSE told

---------------------------------------------------------------------------
\* Frames and feed_de

\* The "stream" names of the payloads.
StreamNames ==
    {"btcusdt@aggTrade", "btcusdt@depth@100ms", "btcusdt@kline_1m",
     "btcusdt@markPrice", "btcusdt"}

\* StreamWrapper::from_stream_type: the text between the first and the
\* second '@' decides by its first two letters; an Option as a sequence.
from_stream_type(stream_type) ==
    CASE stream_type = "btcusdt@depth@100ms" -> <<"Depth">>
      [] stream_type = "btcusdt@aggTrade"    -> <<"Trade">>
      [] stream_type = "btcusdt@kline_1m"    -> <<"Kline">>
      [] OTHER                               -> <<>>

\* The JSON object of a Text frame: its "stream" value, whether the "stream"
\* key precedes the "data" key, whether the "data" value deserializes into
\* the struct of its stream type, and the value it deserializes into.
Payload(stream, stream_first, parses, data) ==
    [stream |-> stream, stream_first |-> stream_first, parses |-> parses,
     data |-> data]

SonicKlines ==
    [time : {1}, open : {3}, high : {3}, low : {3}, close : {3},
     volume : {QtyDenom}, taker_buy_base_asset_volume : {1},
     interval : {"1m", "5m", "1h"}]

SonicKlineWraps == [symbol : {"BTCUSDT", "ETHUSDT", "XRPUSDT"}, kline : SonicKlines]

\* feed_de: Ok(StreamData) or Err(AdapterError).  The stream type is known
\* at the "data" key only if the "stream" key came first; an unknown type
\* or a value that does not deserialize ends in Err.
feed_de(payload) ==
    LET stream_type == IF payload.stream_first
                       THEN from_stream_type(payload.stream)
                       ELSE <<>>
    IN IF stream_type = <<>> \/ ~payload.parses
       THEN [ok |-> FALSE]
       ELSE [ok |-> TRUE, kind |-> stream_type[1], data |-> payload.data]

TextFrame(payload) == [opcode |-> "Text", payload |-> payload]

CloseFrame == [opcode |-> "Close"]

\* Frames of the other opcodes.
OtherFrames == {[opcode |-> o] : o \in {"Binary", "Ping", "Pong", "Continuation"}}

TradeFrames ==
    {TextFrame(Payload("btcusdt@aggTrade", TRUE, TRUE, d)) : d \in SonicTrades}

DepthFrames ==
    {TextFrame(Payload("btcusdt@depth@100ms", TRUE, TRUE, d)) : d \in PerpDepths}

KlineFrames ==
    {TextFrame(Payload("btcusdt@kline_1m", TRUE, TRUE, d)) : d \in SonicKlineWraps}

\* A kline frame on the socket of the market stream.
StrayKlineFrames ==
    {msg \in KlineFrames : /\ msg.payload.data.symbol = "BTCUSDT"
                           /\ msg.payload.data.kline.interval = "1m"}

\* Text frames feed_de rejects: the value does not deserialize, the stream
\* type is unknown, or "data" precedes "stream".
UnparsedFrames ==
    {TextFrame(Payload(s, TRUE, FALSE, <<>>)) : s \in StreamNames}
        \cup {TextFrame(Payload(s, TRUE, TRUE, <<>>)) :
                 s \in {"btcusdt@markPrice", "btcusdt"}}
        \cup {TextFrame(Payload("btcusdt@aggTrade", FALSE, TRUE, d)) : d \in SonicTrades}

\* ForexLimiter and the limiter::DynamicBucket behind it.

\* DynamicBucket::new
DynamicBucket_new(max_tokens) == [max_tokens |-> max_tokens, used |-> 0]

\* Mutant of DynamicBucket_prepare_request: a request that fills the bucket
\* exactly is made to wait.
DynamicBucket_prepare_request_Strict(self, weight) ==
    IF self.used + weight >= self.max_tokens
    THEN [bucket |-> self, wait_time |-> <<"until refill">>, reason |-> "limit"]
    ELSE [bucket |-> [self EXCEPT !.used = @ + weight],
          wait_time |-> <<>>, reason |-> "none"]

\* DynamicBucket::prepare_request: (Option<Duration>, reason).  A request
\* that fits is counted and may go at once; one that does not fit has to
\* wait for the refill and is not counted.
DynamicBucket_prepare_request(self, weight) ==
    IF self.used + weight > self.max_tokens
    THEN [bucket |-> self, wait_time |-> <<"until refill">>, reason |-> "limit"]
    ELSE [bucket |-> [self EXCEPT !.used = @ + weight],
          wait_time |-> <<>>, reason |-> "none"]

\* DynamicBucket::update_weight: the usage is set to the reported one.
DynamicBucket_update_weight(self, used) == [self EXCEPT !.used = used]

\* The refill of the bucket at the end of a window.
DynamicBucket_refill(self) == [self EXCEPT !.used = 0]

\* Mutant of ForexLimiter_new: the buffer is not deducted.
ForexLimiter_new_NoBuffer(limit) == [bucket |-> DynamicBucket_new(limit)]

\* ForexLimiter::new.  (limit as f32 * (1.0 - LIMITER_BUFFER_PCT)) as usize
\* truncates; for LIMIT the f32 product is 2328.0.
ForexLimiter_new(limit) ==
    [bucket |-> DynamicBucket_new((limit * (100 - LIMITER_BUFFER_PCT)) \div 100)]

\* ForexLimiter::prepare_request: the reason is dropped.
prepare_request(self, weight) ==
    LET r == DynamicBucket_prepare_request(self.bucket, weight)
    IN [limiter |-> [self EXCEPT !.bucket = r.bucket], wait_time |-> r.wait_time]

\* Mutant of update_from_response: the header is not used.
update_from_response_Ignore(self, header_value) == self

\* ForexLimiter::update_from_response.  header_value is the result of the
\* get / to_str / parse chain on "x-mbx-used-weight-1m": an Option<usize>.
update_from_response(self, header_value) ==
    IF header_value # <<>>
    THEN [self EXCEPT !.bucket = DynamicBucket_update_weight(@, header_value[1])]
    ELSE self

\* Mutant of should_exit_on_response: only 429 stops.
should_exit_on_response_Only429(self, status) == status = 429

\* ForexLimiter::should_exit_on_response, on response.status().
should_exit_on_response(self, status) == status = 429 \/ status = 418

\* HTTP statuses of a response.
Statuses == {200, 400, 418, 429, 503}

\* Request weights: that of fetch_ticker_prices (40) and a heavy one, half
\* of the effective limit.
Weights == {40, 1164}

\* Values of the used-weight header: none, and usages from 0 to above the
\* limit.
HeaderValues == {<<>>, <<0>>, <<1164>>, <<2320>>, <<2400>>}

\* The ledger of the window: the sum of the weights admitted in it (the
\* local estimate), the last usage the server reported in it (an Option),
\* the sum of the weights admitted since that report, and the number of
\* responses handled.
NewLedger == [local |-> 0, reported |-> <<>>, since |-> 0, responses |-> 0]

NoCall == [op |-> "none"]

\* No REST helper is running.
NoRest == [helper |-> "none", stage |-> "idle", weight |-> <<>>, admitted |-> FALSE]

NoResponse == [kind |-> "none"]

NoResult == [kind |-> "none"]

\* connect_ws is not being called.
NoConn == [pc |-> "idle"]

\* mid_price has not been called.
NoMid == [called |-> FALSE]

\* calc_qty has not been called.
NoQtyCall == [called |-> FALSE]

\* fetch_historical_oi has not been called.
NoOi == [called |-> FALSE]

\* modal/audio.rs

\* AudioStream::new(data::AudioStream::default()) with the sound cache
\* initialised: no stream configured, no volume, no card expanded.
AudioStream_new ==
    [cache |-> TRUE,
     volume |-> <<>>,
     init_error |-> FALSE,
     streams |-> [e \in {} |-> 0],
     expanded_card |-> <<>>]

\* modal/layout_manager.rs.  A name is the sequence of its characters.

\* "Layout {counter}"
LayoutName(counter) ==
    <<"L", "a", "y", "o", "u", "t", " ">>
        \o <<(<<"0", "1", "2", "3", "4", "5", "6", "7", "8", "9">>)[counter + 1]>>

\* Editing
EditingNone == [kind |-> "None"]

EditingPreview == [kind |-> "Preview"]

EditingConfirmingDelete(id) == [kind |-> "ConfirmingDelete", id |-> id]

EditingRenaming(id, name) == [kind |-> "Renaming", id |-> id, name |-> name]

\* LayoutManager::new: one layout "Layout 1" with a fresh Uuid, active.
LayoutManager_new ==
    [layouts |-> <<[unique |-> 1, name |-> LayoutName(1)]>>,
     active_layout_id |-> <<1>>,
     edit_mode |-> EditingNone,
     uuids |-> 1]

---------------------------------------------------------------------------
\* connect_market_stream

Init ==
    /\ state = "Disconnected"
    /\ orderbook = DefaultCache
    /\ trades_buffer = <<>>
    /\ already_fetching = FALSE
    /\ prev_id = 0
    /\ size_in_quote_ccy \in BOOLEAN
    /\ pc = "loop"
    /\ de_depth = None
    /\ resync_tasks = 0
    /\ output = <<>>
    /\ told = "none"
    /\ cache = DefaultCache
    /\ new_depth = NoUpdate
    /\ old_cache = DefaultCache
    /\ heap = [a \in {1} |-> EmptyDepth]
    /\ depth_arc = 1
    /\ handles = <<>>
    /\ arc_pc = "idle"
    /\ arc_upd = NoUpdate
    /\ kline_state = "Disconnected"
    /\ kline_pc = "off"
    /\ kline_output = <<>>
    /\ kline_told = "none"
    /\ limiter = ForexLimiter_new(LIMIT)
    /\ limiter_call = NoCall
    /\ limiter_ledger = NewLedger
    /\ rest = NoRest
    /\ rest_response = NoResponse
    /\ rest_result = NoResult
    /\ conn = NoConn
    /\ mid = NoMid
    /\ qty_call = NoQtyCall
    /\ oi = NoOi
    /\ lm = LayoutManager_new
    /\ audio = AudioStream_new

\* The task is at the top of the State::Disconnected arm.
AtDisconnected == pc = "loop" /\ state = "Disconnected"

\* The task is at ws.read_frame().await.
AtReadFrame == pc = "loop" /\ state = "Connected"

\* Mutant of ConnectFailed: the event is sent at once, without the sleep.
ConnectFailed_NoSleep ==
    /\ AtDisconnected
    /\ CanSend
    /\ Send(EvDisconnected("Failed to connect to websocket"))
    /\ UNCHANGED <<state, orderbook, trades_buffer, already_fetching, prev_id,
                   size_in_quote_ccy, pc, de_depth, resync_tasks>>
    /\ UNCHANGED notStreamVars

\* State::Disconnected arm, connect_ws fails: the task goes to sleep for
\* the backoff.
ConnectFailed ==
    /\ AtDisconnected
    /\ pc' = "backoff"
    /\ UNCHANGED <<state, orderbook, trades_buffer, already_fetching, prev_id,
                   size_in_quote_ccy, de_depth, resync_tasks, output, told>>
    /\ UNCHANGED notStreamVars

\* Mutant of BackoffElapsed: the task does not go back to the top of the
\* loop.
BackoffElapsed_NoRetry ==
    /\ pc = "backoff"
    /\ CanSend
    /\ Send(EvDisconnected("Failed to connect to websocket"))
    /\ UNCHANGED <<state, orderbook, trades_buffer, already_fetching, prev_id,
                   size_in_quote_ccy, pc, de_depth, resync_tasks>>
    /\ UNCHANGED notStreamVars

\* The backoff sleep is over: the Disconnected event is sent.
BackoffElapsed ==
    /\ pc = "backoff"
    /\ CanSend
    /\ Send(EvDisconnected("Failed to connect to websocket"))
    /\ pc' = "loop"
    /\ UNCHANGED <<state, orderbook, trades_buffer, already_fetching, prev_id,
                   size_in_quote_ccy, de_depth, resync_tasks>>
    /\ UNCHANGED notStreamVars

\* State::Disconnected arm, connect_ws succeeds: the snapshot fetch is
\* spawned and its oneshot receiver awaited.
ConnectWs ==
    /\ AtDisconnected
    /\ pc' = "seed_wait"
    /\ UNCHANGED <<state, orderbook, trades_buffer, already_fetching, prev_id,
                   size_in_quote_ccy, de_depth, resync_tasks, output, told>>
    /\ UNCHANGED notStreamVars

\* Mutant of ConnectSeeded: prev_id is not reset.
ConnectSeeded_KeepPrevId ==
    /\ pc = "seed_wait"
    /\ CanSend
    /\ \E fetched \in FetchedDepths :
         orderbook' = LocalDepthCache_update(
                          orderbook,
                          Snapshot(fetch_depth(fetched, contract_size, size_in_quote_ccy)),
                          MinTick)
    /\ state' = "Connected"
    /\ Send(EvConnected)
    /\ pc' = "loop"
    /\ UNCHANGED <<trades_buffer, already_fetching, prev_id, size_in_quote_ccy,
                   de_depth, resync_tasks>>
    /\ UNCHANGED notStreamVars

\* rx.await returns Ok(Ok(depth)): the snapshot seeds the cache.
ConnectSeeded ==
    /\ pc = "seed_wait"
    /\ CanSend
    /\ \E fetched \in FetchedDepths :
         orderbook' = LocalDepthCache_update(
                          orderbook,
                          Snapshot(fetch_depth(fetched, contract_size, size_in_quote_ccy)),
                          MinTick)
    /\ prev_id' = 0
    /\ state' = "Connected"
    /\ Send(EvConnected)
    /\ pc' = "loop"
    /\ UNCHANGED <<trades_buffer, already_fetching, size_in_quote_ccy,
                   de_depth, resync_tasks>>
    /\ UNCHANGED notStreamVars

\* rx.await returns Ok(Err(e)): fetch_depth returned an error.
ConnectFetchFailed ==
    /\ pc = "seed_wait"
    /\ CanSend
    /\ Send(EvDisconnected("Depth fetch failed"))
    /\ pc' = "loop"
    /\ UNCHANGED <<state, orderbook, trades_buffer, already_fetching, prev_id,
                   size_in_quote_ccy, de_depth, resync_tasks>>
    /\ UNCHANGED notStreamVars

\* rx.await returns Err(e): the oneshot sender was dropped.
ConnectChannelError ==
    /\ pc = "seed_wait"
    /\ CanSend
    /\ Send(EvDisconnected("Channel error"))
    /\ pc' = "loop"
    /\ UNCHANGED <<state, orderbook, trades_buffer, already_fetching, prev_id,
                   size_in_quote_ccy, de_depth, resync_tasks>>
    /\ UNCHANGED notStreamVars

\* The variables of the task other than size_in_quote_ccy are left alone.
Skip ==
    UNCHANGED <<state, orderbook, trades_buffer, already_fetching, prev_id,
                pc, de_depth, resync_tasks, output, told>>

\* Mutant of OnTrade: the trade is put in front of the buffer.
OnTrade_Prepend(de_trade) ==
    /\ Len(trades_buffer) < MaxTrades
    /\ trades_buffer' = <<[time    |-> de_trade.time,
                           is_sell |-> de_trade.is_sell,
                           price   |-> round_to_min_tick(de_trade.price, MinTick),
                           qty     |-> IF size_in_quote_ccy
                                       THEN round(de_trade.qty * de_trade.price)
                                       ELSE de_trade.qty]>> \o trades_buffer
    /\ UNCHANGED <<state, orderbook, already_fetching, prev_id,
                   pc, de_depth, resync_tasks, output, told>>

\* StreamData::Trade
OnTrade(de_trade) ==
    /\ Len(trades_buffer) < MaxTrades
    /\ trades_buffer' = Append(trades_buffer,
           [time    |-> de_trade.time,
            is_sell |-> de_trade.is_sell,
            price   |-> round_to_min_tick(de_trade.price, MinTick),
            qty     |-> IF size_in_quote_ccy
                        THEN round(de_trade.qty * de_trade.price)
                        ELSE de_trade.qty])
    /\ UNCHANGED <<state, orderbook, already_fetching, prev_id,
                   pc, de_depth, resync_tasks, output, told>>

\* The stale test of the depth arm (lines 392-396).
IsStale(de, last_update_id) ==
    de.final_id <= last_update_id \/ last_update_id = 0

\* Mutant of OutOfSync: the alignment test is off by one.
OutOfSync_OffByOne(pid, de, last_update_id) ==
    \/ (pid = 0 /\ de.first_id > last_update_id + 2)
    \/ (last_update_id + 1 > de.final_id)

\* Mutant of OutOfSync: a gap starts a resync whatever prev_id is.
OutOfSync_AnyGap(pid, de, last_update_id) ==
    \/ (de.first_id > last_update_id + 1)
    \/ (last_update_id + 1 > de.final_id)

\* The out-of-sync test of the depth arm (lines 398-400); && binds tighter
\* than ||.
OutOfSync(pid, de, last_update_id) ==
    \/ (pid = 0 /\ de.first_id > last_update_id + 1)
    \/ (last_update_id + 1 > de.final_id)

\* Mutant of ApplyOrDisconnect: the continuity test is dropped.
ApplyOrDisconnect_NoGapCheck(de) ==
    /\ CanSend
    /\ orderbook' = LocalDepthCache_update(
                        orderbook,
                        Diff(new_depth_cache(de, contract_size, size_in_quote_ccy)),
                        MinTick)
    /\ Send(EvDepthReceived(de.time, orderbook'.depth, trades_buffer))
    /\ trades_buffer' = <<>>
    /\ prev_id' = de.final_id
    /\ UNCHANGED state

\* Lines 418-453: apply the diff and emit it, or disconnect.
ApplyOrDisconnect(de) ==
    IF prev_id = 0 \/ prev_id = de.prev_final_id
    THEN /\ CanSend
         /\ orderbook' = LocalDepthCache_update(
                             orderbook,
                             Diff(new_depth_cache(de, contract_size, size_in_quote_ccy)),
                             MinTick)
         /\ Send(EvDepthReceived(de.time, orderbook'.depth, trades_buffer))
         /\ trades_buffer' = <<>>
         /\ prev_id' = de.final_id
         /\ UNCHANGED state
    ELSE /\ CanSend
         /\ state' = "Disconnected"
         /\ Send(EvDisconnected("Out of sync"))
         /\ UNCHANGED <<orderbook, trades_buffer, prev_id>>

\* The first half of try_resync (lines 245-253): raise the flag, spawn the
\* fetch and await the oneshot receiver.
StartResync(de) ==
    /\ already_fetching' = TRUE
    /\ resync_tasks' = resync_tasks + 1
    /\ de_depth' = de
    /\ pc' = "resync_wait"
    /\ UNCHANGED <<state, orderbook, trades_buffer, prev_id, output, told>>

\* StreamData::Depth
OnDepth(de) ==
    IF already_fetching \/ IsStale(de, orderbook.last_update_id)
    THEN UNCHANGED <<state, orderbook, trades_buffer, already_fetching, prev_id,
                     pc, de_depth, resync_tasks, output, told>>
    ELSE IF OutOfSync(prev_id, de, orderbook.last_update_id)
         THEN StartResync(de)
         ELSE /\ ApplyOrDisconnect(de)
              /\ UNCHANGED <<already_fetching, pc, de_depth, resync_tasks>>

\* Mutant of ResyncFetched: the flag is not lowered on the way out.
ResyncFetched_KeepFlag ==
    /\ pc = "resync_wait"
    /\ \E fetched \in FetchedDepths :
         orderbook' = LocalDepthCache_update(
                          orderbook,
                          Snapshot(fetch_depth(fetched, contract_size, size_in_quote_ccy)),
                          MinTick)
    /\ resync_tasks' = resync_tasks - 1
    /\ pc' = "after_resync"
    /\ UNCHANGED <<state, trades_buffer, already_fetching, prev_id,
                   size_in_quote_ccy, de_depth, output, told>>
    /\ UNCHANGED notStreamVars

\* rx.await in try_resync returns Ok(Ok(depth)).
ResyncFetched ==
    /\ pc = "resync_wait"
    /\ \E fetched \in FetchedDepths :
         orderbook' = LocalDepthCache_update(
                          orderbook,
                          Snapshot(fetch_depth(fetched, contract_size, size_in_quote_ccy)),
                          MinTick)
    /\ already_fetching' = FALSE
    /\ resync_tasks' = resync_tasks - 1
    /\ pc' = "after_resync"
    /\ UNCHANGED <<state, trades_buffer, prev_id, size_in_quote_ccy, de_depth, output, told>>
    /\ UNCHANGED notStreamVars

\* rx.await in try_resync returns Ok(Err(e)).
ResyncFetchFailed ==
    /\ pc = "resync_wait"
    /\ CanSend
    /\ Send(EvDisconnected("Depth fetch failed"))
    /\ already_fetching' = FALSE
    /\ resync_tasks' = resync_tasks - 1
    /\ pc' = "after_resync"
    /\ UNCHANGED <<state, orderbook, trades_buffer, prev_id, size_in_quote_ccy,
                   de_depth>>
    /\ UNCHANGED notStreamVars

\* rx.await in try_resync returns Err(e): the sender was dropped.
ResyncChannelError ==
    /\ pc = "resync_wait"
    /\ CanSend
    /\ state' = "Disconnected"
    /\ Send(EvDisconnected("Failed to send fetched depth"))
    /\ already_fetching' = FALSE
    /\ resync_tasks' = resync_tasks - 1
    /\ pc' = "after_resync"
    /\ UNCHANGED <<orderbook, trades_buffer, prev_id, size_in_quote_ccy, de_depth>>
    /\ UNCHANGED notStreamVars

\* try_resync has returned: the depth arm goes on with the same diff.
AfterResync ==
    /\ pc = "after_resync"
    /\ ApplyOrDisconnect(de_depth)
    /\ pc' = "loop"
    /\ de_depth' = None
    /\ UNCHANGED <<already_fetching, size_in_quote_ccy, resync_tasks>>
    /\ UNCHANGED notStreamVars

\* Mutant of OnClose: the state changes but no event is sent.
OnClose_NoEvent ==
    /\ state' = "Disconnected"
    /\ UNCHANGED <<orderbook, trades_buffer, already_fetching, prev_id,
                   pc, de_depth, resync_tasks, output, told>>

\* OpCode::Close
OnClose ==
    /\ CanSend
    /\ state' = "Disconnected"
    /\ Send(EvDisconnected("Connection closed"))
    /\ UNCHANGED <<orderbook, trades_buffer, already_fetching, prev_id,
                   pc, de_depth, resync_tasks>>

\* Mutant of OnMessage: a Text frame that feed_de rejects ends the
\* connection.
OnMessage_ParseErrorCloses(msg) ==
    IF msg.opcode = "Text"
    THEN LET data == feed_de(msg.payload) IN
         IF data.ok /\ data.kind = "Trade" THEN OnTrade(data.data)
         ELSE IF data.ok /\ data.kind = "Depth" THEN OnDepth(data.data)
         ELSE IF data.ok THEN Skip
         ELSE OnClose
    ELSE IF msg.opcode = "Close" THEN OnClose
    ELSE Skip

\* The Ok(msg) arm of ws.read_frame().await (lines 358-471).
OnMessage(msg) ==
    IF msg.opcode = "Text"
    THEN LET data == feed_de(msg.payload) IN
         IF data.ok /\ data.kind = "Trade" THEN OnTrade(data.data)
         ELSE IF data.ok /\ data.kind = "Depth" THEN OnDepth(data.data)
         ELSE Skip
    ELSE IF msg.opcode = "Close" THEN OnClose
    ELSE Skip

\* An aggTrade frame is read.
ReadTrade ==
    /\ AtReadFrame
    /\ \E msg \in TradeFrames : OnMessage(msg)
    /\ UNCHANGED size_in_quote_ccy
    /\ UNCHANGED notStreamVars

\* A depth frame is read.
ReadDepth ==
    /\ AtReadFrame
    /\ \E msg \in DepthFrames : OnMessage(msg)
    /\ UNCHANGED size_in_quote_ccy
    /\ UNCHANGED notStreamVars

\* A Close frame is read.
ReadClose ==
    /\ AtReadFrame
    /\ OnMessage(CloseFrame)
    /\ UNCHANGED size_in_quote_ccy
    /\ UNCHANGED notStreamVars

\* ws.read_frame() returns Err(e).
ReadError ==
    /\ AtReadFrame
    /\ CanSend
    /\ state' = "Disconnected"
    /\ Send(EvDisconnected("Error reading frame"))
    /\ UNCHANGED <<orderbook, trades_buffer, already_fetching, prev_id,
                   size_in_quote_ccy, pc, de_depth, resync_tasks>>
    /\ UNCHANGED notStreamVars

\* A Text frame feed_de rejects, a kline frame, or a frame of another
\* opcode is read.
ReadIgnored ==
    /\ AtReadFrame
    /\ \E msg \in UnparsedFrames \cup StrayKlineFrames \cup OtherFrames :
         OnMessage(msg)
    /\ UNCHANGED size_in_quote_ccy
    /\ UNCHANGED notStreamVars

\* The consumer of the stream takes the oldest event.
Recv ==
    /\ output # <<>>
    /\ output' = Tail(output)
    /\ UNCHANGED <<state, orderbook, trades_buffer, already_fetching, prev_id,
                   size_in_quote_ccy, pc, de_depth, resync_tasks, told>>
    /\ UNCHANGED notStreamVars

Next ==
    \/ ConnectFailed
    \/ BackoffElapsed
    \/ ConnectWs
    \/ ConnectSeeded
    \/ ConnectFetchFailed
    \/ ConnectChannelError
    \/ ReadTrade
    \/ ReadDepth
    \/ ResyncFetched
    \/ ResyncFetchFailed
    \/ ResyncChannelError
    \/ AfterResync
    \/ ReadClose
    \/ ReadError
    \/ ReadIgnored
    \/ Recv

Spec == Init /\ [][Next]_vars

\* The awaits of the task other than ws.read_frame(): connect_ws, the
\* backoff sleep, the oneshot receivers of the snapshot fetches, and the
\* rest of the depth arm after try_resync.
TaskAwaits ==
    \/ ConnectFailed
    \/ BackoffElapsed
    \/ ConnectWs
    \/ ConnectSeeded
    \/ ConnectFetchFailed
    \/ ConnectChannelError
    \/ ResyncFetched
    \/ ResyncFetchFailed
    \/ ResyncChannelError
    \/ AfterResync

\* The steps of the task.
TaskNext ==
    \/ TaskAwaits
    \/ ReadTrade
    \/ ReadDepth
    \/ ReadClose
    \/ ReadError
    \/ ReadIgnored

\* The market stream under fairness, with sizes in base currency (the size
\* unit changes quantities only): every await of the task other than the
\* frame read completes, the consumer keeps taking events, and a transport
\* connect and a snapshot fetch that are attempted again and again
\* eventually succeed.
InitLive == Init /\ size_in_quote_ccy = FALSE

SpecLive ==
    /\ InitLive
    /\ [][Next]_vars
    /\ WF_vars(TaskAwaits)
    /\ WF_vars(Recv)
    /\ SF_vars(ConnectWs)
    /\ SF_vars(ConnectSeeded)

---------------------------------------------------------------------------
\* connect_kline_stream

\* The streams argument: the subscribed (ticker, timeframe) pairs.
streams ==
    << [ticker |-> "BTCUSDT", timeframe |-> "1m"],
       [ticker |-> "ETHUSDT", timeframe |-> "5m"] >>

\* The keys of ticker_info_map.
ticker_info_map == {streams[i].ticker : i \in 1..Len(streams)}

KlineCanSend == Len(kline_output) < ChanCap

KlineSend(ev) ==
    /\ kline_output' = Append(kline_output, ev)
    /\ kline_told' = IF ev.tag \in {"Connected", "Disconnected"}
                     THEN ev.tag ELSE kline_told

KlineAtDisconnected == kline_pc = "loop" /\ kline_state = "Disconnected"

KlineAtReadFrame == kline_pc = "loop" /\ kline_state = "Connected"

\* State::Disconnected arm, connect_ws fails: the task goes to sleep for
\* the backoff.
KlineConnectFailed ==
    /\ KlineAtDisconnected
    /\ kline_pc' = "backoff"
    /\ UNCHANGED <<kline_state, kline_output, kline_told>>
    /\ UNCHANGED notKlineVars

\* The backoff sleep is over: the Disconnected event is sent.
KlineBackoffElapsed ==
    /\ kline_pc = "backoff"
    /\ KlineCanSend
    /\ KlineSend(EvDisconnected("Failed to connect to websocket"))
    /\ kline_pc' = "loop"
    /\ UNCHANGED kline_state
    /\ UNCHANGED notKlineVars

\* State::Disconnected arm, connect_ws succeeds.
KlineConnectWs ==
    /\ KlineAtDisconnected
    /\ KlineCanSend
    /\ kline_state' = "Connected"
    /\ KlineSend(EvConnected)
    /\ UNCHANGED kline_pc
    /\ UNCHANGED notKlineVars

KlineSkip == UNCHANGED <<kline_state, kline_pc, kline_output, kline_told>>

\* Ok(StreamData::Kline(ticker, de_kline))
OnKline(ticker, de_kline) ==
    LET buy_volume  == de_kline.taker_buy_base_asset_volume
        sell_volume == de_kline.volume - buy_volume
        volumes == IF size_in_quote_ccy
                   THEN <<round(buy_volume * de_kline.close),
                          round(sell_volume * de_kline.close)>>
                   ELSE <<buy_volume, sell_volume>>
        found == {i \in 1..Len(streams) : streams[i].timeframe = de_kline.interval}
        first == CHOOSE i \in found : \A j \in found : i <= j
    IN IF found # {} /\ ticker \in ticker_info_map
       THEN /\ KlineCanSend
            /\ KlineSend(EvKlineReceived(
                   ticker, streams[first].timeframe,
                   [time |-> de_kline.time, open |-> de_kline.open,
                    high |-> de_kline.high, low |-> de_kline.low,
                    close |-> de_kline.close, volume |-> volumes]))
            /\ UNCHANGED <<kline_state, kline_pc>>
       ELSE KlineSkip

\* Mutant of KlineOnClose: the state changes but no event is sent.
KlineOnClose_NoEvent ==
    /\ kline_state' = "Disconnected"
    /\ UNCHANGED <<kline_pc, kline_output, kline_told>>

\* OpCode::Close
KlineOnClose ==
    /\ KlineCanSend
    /\ kline_state' = "Disconnected"
    /\ KlineSend(EvDisconnected("Connection closed"))
    /\ UNCHANGED kline_pc

\* The Ok(msg) arm of ws.read_frame().await (lines 627-690).
KlineOnMessage(msg) ==
    IF msg.opcode = "Text"
    THEN LET data == feed_de(msg.payload) IN
         IF data.ok /\ data.kind = "Kline"
         THEN OnKline(data.data.symbol, data.data.kline)
         ELSE KlineSkip
    ELSE IF msg.opcode = "Close" THEN KlineOnClose
    ELSE KlineSkip

\* A kline frame is read.
KlineReadKline ==
    /\ KlineAtReadFrame
    /\ \E msg \in KlineFrames : KlineOnMessage(msg)
    /\ UNCHANGED notKlineVars

\* A Close frame is read.
KlineReadClose ==
    /\ KlineAtReadFrame
    /\ KlineOnMessage(CloseFrame)
    /\ UNCHANGED notKlineVars

\* ws.read_frame() returns Err(e).
KlineReadError ==
    /\ KlineAtReadFrame
    /\ KlineCanSend
    /\ kline_state' = "Disconnected"
    /\ KlineSend(EvDisconnected("Error reading frame"))
    /\ UNCHANGED kline_pc
    /\ UNCHANGED notKlineVars

\* A Text frame that is no kline, or a frame of another opcode, is read.
KlineReadIgnored ==
    /\ KlineAtReadFrame
    /\ \E msg \in UnparsedFrames \cup TradeFrames \cup OtherFrames : KlineOnMessage(msg)
    /\ UNCHANGED notKlineVars

\* The consumer of the kline stream takes the oldest event.
KlineRecv ==
    /\ kline_output # <<>>
    /\ kline_output' = Tail(kline_output)
    /\ UNCHANGED <<kline_state, kline_pc, kline_told>>
    /\ UNCHANGED notKlineVars

NextKline ==
    \/ KlineConnectFailed
    \/ KlineBackoffElapsed
    \/ KlineConnectWs
    \/ KlineReadKline
    \/ KlineReadClose
    \/ KlineReadError
    \/ KlineReadIgnored
    \/ KlineRecv

---------------------------------------------------------------------------
\* The stream tasks: the task spawned is a market stream or a kline stream.

InitStreams ==
    /\ state = "Disconnected"
    /\ orderbook = DefaultCache
    /\ trades_buffer = <<>>
    /\ already_fetching = FALSE
    /\ prev_id = 0
    /\ size_in_quote_ccy \in BOOLEAN
    /\ de_depth = None
    /\ resync_tasks = 0
    /\ output = <<>>
    /\ told = "none"
    /\ cache = DefaultCache
    /\ new_depth = NoUpdate
    /\ old_cache = DefaultCache
    /\ heap = [a \in {1} |-> EmptyDepth]
    /\ depth_arc = 1
    /\ handles = <<>>
    /\ arc_pc = "idle"
    /\ arc_upd = NoUpdate
    /\ kline_state = "Disconnected"
    /\ kline_output = <<>>
    /\ kline_told = "none"
    /\ limiter = ForexLimiter_new(LIMIT)
    /\ limiter_call = NoCall
    /\ limiter_ledger = NewLedger
    /\ rest = NoRest
    /\ rest_response = NoResponse
    /\ rest_result = NoResult
    /\ conn = NoConn
    /\ mid = NoMid
    /\ qty_call = NoQtyCall
    /\ \/ pc = "loop" /\ kline_pc = "off"
       \/ pc = "off" /\ kline_pc = "loop"
    /\ oi = NoOi
    /\ lm = LayoutManager_new
    /\ audio = AudioStream_new

NextStreams ==
    \/ Next
    \/ NextKline

SpecStreams == InitStreams /\ [][NextStreams]_vars

---------------------------------------------------------------------------
\* A LocalDepthCache driven by arbitrary updates.

\* Orders of the bid side of the payloads below: raw prices 1 and 2 round to
\* the same level, quantities are 0, 0.25 and 1.0.
BidOrders ==
    { [price |-> 1, qty |-> QtyDenom], [price |-> 2, qty |-> 1],
      [price |-> 2, qty |-> 0], [price |-> 3, qty |-> QtyDenom] }

\* Orders of the ask side.
AskOrders == { [price |-> 3, qty |-> QtyDenom] }

\* DepthPayload values handed to LocalDepthCache::update
DepthPayloads ==
    { [last_update_id |-> st[1], time |-> st[2], bids |-> b, asks |-> a] :
        st \in {<<1, 2>>, <<2, 1>>},
        b \in OrderLists(BidOrders, MaxOrders),
        a \in OrderLists(AskOrders, 1) }

InitDepth == Init /\ size_in_quote_ccy = FALSE

UpdateSnapshot ==
    /\ \E p \in DepthPayloads :
         /\ new_depth' = Snapshot(p)
         /\ cache' = LocalDepthCache_update(cache, Snapshot(p), MinTick)
    /\ old_cache' = cache
    /\ UNCHANGED notDepthVars

UpdateDiff ==
    /\ \E p \in DepthPayloads :
         /\ new_depth' = Diff(p)
         /\ cache' = LocalDepthCache_update(cache, Diff(p), MinTick)
    /\ old_cache' = cache
    /\ UNCHANGED notDepthVars

NextDepth ==
    \/ UpdateSnapshot
    \/ UpdateDiff

SpecDepth == InitDepth /\ [][NextDepth]_vars

---------------------------------------------------------------------------
\* The Arc<Depth> of a LocalDepthCache and the clones handed to consumers.
\* heap maps the address of every live allocation to the Depth it holds;
\* the consumer runs concurrently with the update, which is therefore taken
\* in the two steps of Depth::update / Depth::replace_all (bids, then asks).

Addrs == 1..(MaxHeld + 1)

\* DepthPayload values of the updates below.
ArcPayloads ==
    { [last_update_id |-> 1, time |-> 1, bids |-> b, asks |-> a] :
        b \in { <<>>, <<[price |-> 1, qty |-> QtyDenom]>>,
                <<[price |-> 1, qty |-> 0]>> },
        a \in { <<>>, <<[price |-> 3, qty |-> QtyDenom]>> } }

\* Arc::strong_count
strong_count(ptr) ==
    (IF depth_arc = ptr THEN 1 ELSE 0)
        + Cardinality({i \in 1..Len(handles) : handles[i].ptr = ptr})

\* Mutant of make_mut: the shared allocation is mutated in place.
make_mut_InPlace(ptr) == {ptr}

\* Arc::make_mut: the addresses at which the exclusively owned Depth may be
\* found afterwards: the same one if the Arc is unique, otherwise a new
\* allocation, which receives a clone of the data.
make_mut(ptr) ==
    IF strong_count(ptr) = 1 THEN {ptr} ELSE Addrs \ DOMAIN heap

\* The first statement of Depth::update / Depth::replace_all.
ApplyBids(depth, upd) ==
    IF upd.kind = "Snapshot"
    THEN [depth EXCEPT !.bids = CollectBTreeMap(upd.payload.bids, MinTick)]
    ELSE [depth EXCEPT !.bids = diff_price_levels(depth.bids, upd.payload.bids, MinTick)]

\* The second statement of Depth::update / Depth::replace_all.
ApplyAsks(depth, upd) ==
    IF upd.kind = "Snapshot"
    THEN [depth EXCEPT !.asks = CollectBTreeMap(upd.payload.asks, MinTick)]
    ELSE [depth EXCEPT !.asks = diff_price_levels(depth.asks, upd.payload.asks, MinTick)]

\* The allocations that are still referenced once the cache holds ptr and
\* the clones are hs.
Live(ptr, hs) == {ptr} \cup {hs[i].ptr : i \in 1..Len(hs)}

\* LocalDepthCache::update up to the end of the bids statement.
ArcUpdateBegin ==
    /\ arc_pc = "idle"
    /\ \E kind \in {"Snapshot", "Diff"}, p \in ArcPayloads :
         LET upd == [kind |-> kind, payload |-> p] IN
         \E ptr \in make_mut(depth_arc) :
            /\ depth_arc' = ptr
            /\ heap' = [a \in Live(ptr, handles) |->
                          IF a = ptr THEN ApplyBids(heap[depth_arc], upd)
                                     ELSE heap[a]]
            /\ arc_upd' = [kind |-> kind, payload |-> p, before |-> heap[depth_arc]]
    /\ arc_pc' = "bids_done"
    /\ UNCHANGED handles
    /\ UNCHANGED notArcVars

\* The asks statement; a Diff is followed by the send of the event.
ArcUpdateEnd ==
    /\ arc_pc = "bids_done"
    /\ heap' = [heap EXCEPT ![depth_arc] = ApplyAsks(heap[depth_arc], arc_upd)]
    /\ arc_pc' = IF arc_upd.kind = "Diff" THEN "send" ELSE "idle"
    /\ arc_upd' = IF arc_upd.kind = "Diff" THEN arc_upd ELSE NoUpdate
    /\ UNCHANGED <<depth_arc, handles>>
    /\ UNCHANGED notArcVars

\* The Depth a whole application of the update leaves.
Whole(upd) ==
    LocalDepthCache_update(
        [last_update_id |-> 0, time |-> 0, depth |-> upd.before],
        [kind |-> upd.kind, payload |-> upd.payload],
        MinTick).depth

\* Event::DepthReceived(.., orderbook.depth.clone(), ..): the event takes a
\* clone of the Arc.  seen is the Depth the holder reads at that moment.
ArcSend ==
    /\ arc_pc = "send"
    /\ Len(handles) < MaxHeld
    /\ handles' = Append(handles, [ptr   |-> depth_arc,
                                   seen  |-> heap[depth_arc],
                                   whole |-> Whole(arc_upd)])
    /\ arc_pc' = "idle"
    /\ arc_upd' = NoUpdate
    /\ UNCHANGED <<heap, depth_arc>>
    /\ UNCHANGED notArcVars

\* A holder drops its clone; the allocation is freed with its last Arc.
ArcDrop ==
    /\ \E i \in 1..Len(handles) :
         LET hs == SubSeq(handles, 1, i - 1) \o SubSeq(handles, i + 1, Len(handles))
         IN /\ handles' = hs
            /\ heap' = [a \in Live(depth_arc, hs) |-> heap[a]]
    /\ UNCHANGED <<depth_arc, arc_pc, arc_upd>>
    /\ UNCHANGED notArcVars

NextArc ==
    \/ ArcUpdateBegin
    \/ ArcUpdateEnd
    \/ ArcSend
    \/ ArcDrop

SpecArc == InitDepth /\ [][NextArc]_vars

---------------------------------------------------------------------------
\* The harness of the limiter: requests, responses and refills in any order.

InitLimiter == Init /\ size_in_quote_ccy = FALSE

PrepareRequest ==
    /\ \E weight \in Weights :
         LET r == prepare_request(limiter, weight) IN
         /\ limiter' = r.limiter
         /\ limiter_call' = [op |-> "prepare_request", weight |-> weight,
                             wait_time |-> r.wait_time]
         /\ limiter_ledger' =
              IF r.wait_time = <<>>
              THEN [limiter_ledger EXCEPT !.local = @ + weight, !.since = @ + weight]
              ELSE limiter_ledger
    /\ UNCHANGED notLimiterVars

UpdateFromResponse ==
    /\ limiter_ledger.responses < MaxResponses
    /\ \E header_value \in HeaderValues :
         /\ limiter' = update_from_response(limiter, header_value)
         /\ limiter_call' = [op |-> "update_from_response", header |-> header_value]
         /\ limiter_ledger' =
              IF header_value # <<>>
              THEN [limiter_ledger EXCEPT !.reported = header_value, !.since = 0,
                                          !.responses = @ + 1]
              ELSE [limiter_ledger EXCEPT !.responses = @ + 1]
    /\ UNCHANGED notLimiterVars

\* should_exit_on_response takes &self: the limiter is only read.
ShouldExitOnResponse ==
    /\ \E status \in Statuses :
         limiter_call' = [op |-> "should_exit_on_response", status |-> status,
                          exit |-> should_exit_on_response(limiter, status)]
    /\ UNCHANGED <<limiter, limiter_ledger>>
    /\ UNCHANGED notLimiterVars

\* REFILL_RATE has passed: a new window begins.
Refill ==
    /\ limiter' = [limiter EXCEPT !.bucket = DynamicBucket_refill(@)]
    /\ limiter_call' = NoCall
    /\ limiter_ledger' = NewLedger
    /\ UNCHANGED notLimiterVars

NextLimiter ==
    \/ PrepareRequest
    \/ UpdateFromResponse
    \/ ShouldExitOnResponse
    \/ Refill

SpecLimiter == InitLimiter /\ [][NextLimiter]_vars

---------------------------------------------------------------------------
\* The REST helpers: fetch_depth, fetch_klines, fetch_ticksize,
\* fetch_ticker_prices, fetch_historical_oi.

\* Items of a response are JSON objects: a field that may be missing is an
\* Option (a sequence of length 0 or 1).

\* str::parse::<f32>, in hundredths, on the strings the responses carry.
parse_f32(str) ==
    CASE str = "0.01" -> <<1>>
      [] str = "1"    -> <<100>>
      [] OTHER        -> <<>>

\* let accepted_bases = [..]
accepted_bases ==
    {"EUR", "GBP", "JPY", "1000JPY", "AUD", "CAD", "CHF", "NZD", "SGD",
     "HKD", "SEK", "NOK", "DKK", "ZAR", "TRY", "BRL", "MXN",
     "INR", "RUB", "KRW", "CNY", "IDR", "TWD", "THB", "VND"}

\* The symbols of the responses, with the base and the quote asset each is
\* made of.
SymbolParts ==
    [s \in {"EURUSDT", "GBPUSDT", "BTCUSDT"} |->
        CASE s = "EURUSDT" -> [base |-> "EUR", quote |-> "USDT"]
          [] s = "GBPUSDT" -> [base |-> "GBP", quote |-> "USDT"]
          [] s = "BTCUSDT" -> [base |-> "BTC", quote |-> "USDT"]]

\* is_symbol_supported: every symbol of the responses is well formed.
is_symbol_supported(symbol) == symbol \in DOMAIN SymbolParts

Ok(value) == [kind |-> "Ok", value |-> value]

ParseError(msg) == [kind |-> "Err", error |-> "ParseError", msg |-> msg]

FetchError == [kind |-> "Err", error |-> "FetchError", msg |-> "transport"]

\* filters.iter().find(|x| x["filterType"] == filter_type): an Option.
find_filter(filters, filter_type) ==
    LET found == {i \in 1..Len(filters) : filters[i].filterType = filter_type}
    IN IF found = {} THEN <<>>
       ELSE <<filters[CHOOSE i \in found : \A j \in found : i <= j]>>

\* One turn of the loop of fetch_ticksize on item: the map after it
\* ("continue" leaves the map as it is), or the error that `?` returns.
ticksize_item(item, map) ==
    IF item.symbol = <<>> THEN ParseError("Missing symbol")
    ELSE LET symbol_str == item.symbol[1] IN
    IF ~is_symbol_supported(symbol_str) THEN Ok(map)
    ELSE IF item.status # <<>> /\ item.status[1] # "TRADING" /\ item.status[1] # "HALT"
    THEN Ok(map)
    ELSE IF item.quoteAsset # "USDT" /\ item.quoteAsset # "USDC" THEN Ok(map)
    ELSE IF item.baseAsset \notin accepted_bases THEN Ok(map)
    ELSE IF item.filters = <<>> THEN ParseError("Missing filters array")
    ELSE LET filters      == item.filters[1]
             price_filter == find_filter(filters, "PRICE_FILTER")
             lot_size     == find_filter(filters, "LOT_SIZE")
         IN
    IF lot_size = <<>> \/ lot_size[1].value = <<>>
    THEN ParseError("Missing minQty in LOT_SIZE filter")
    ELSE IF parse_f32(lot_size[1].value[1]) = <<>>
    THEN ParseError("Failed to parse minQty")
    ELSE LET min_qty == parse_f32(lot_size[1].value[1])[1] IN
    IF price_filter = <<>> THEN Ok((symbol_str :> <<>>) @@ map)
    ELSE IF price_filter[1].value = <<>> THEN ParseError("tickSize not found")
    ELSE IF parse_f32(price_filter[1].value[1]) = <<>>
    THEN ParseError("Failed to parse tickSize")
    ELSE Ok((symbol_str :> <<[ticker        |-> symbol_str,
                              min_ticksize  |-> parse_f32(price_filter[1].value[1])[1],
                              min_qty       |-> min_qty,
                              contract_size |-> item.contractSize]>>) @@ map)

RECURSIVE ticksize_loop(_, _, _)
ticksize_loop(symbols, i, map) ==
    IF i > Len(symbols) THEN Ok(map)
    ELSE LET r == ticksize_item(symbols[i], map) IN
         IF r.kind = "Err" THEN r ELSE ticksize_loop(symbols, i + 1, r.value)

\* fetch_ticksize, from the response text on.
fetch_ticksize(body) ==
    IF ~body.parses THEN ParseError("Failed to parse exchange info")
    ELSE IF body.items = <<>> THEN ParseError("Missing symbols array")
    ELSE ticksize_loop(body.items[1], 1, <<>>)

\* One turn of the loop of fetch_ticker_prices on item.
ticker_prices_item(item, map) ==
    IF item.symbol = <<>> THEN ParseError("Symbol not found")
    ELSE LET symbol == item.symbol[1]
             is_valid_forex ==
                 /\ symbol \in DOMAIN SymbolParts
                 /\ SymbolParts[symbol].base \in accepted_bases
                 /\ SymbolParts[symbol].quote \in {"USDT", "USDC"}
         IN
    IF ~is_valid_forex THEN Ok(map)
    ELSE IF ~is_symbol_supported(symbol) THEN Ok(map)
    ELSE IF item.lastPrice = <<>> THEN ParseError("Last price not found")
    ELSE IF parse_f32(item.lastPrice[1]) = <<>>
    THEN ParseError("Failed to parse last price")
    ELSE IF item.priceChangePercent = <<>>
    THEN ParseError("Price change percent not found")
    ELSE IF parse_f32(item.priceChangePercent[1]) = <<>>
    THEN ParseError("Failed to parse price change percent")
    ELSE IF item.quoteVolume = <<>> THEN ParseError("Quote volume not found")
    ELSE IF parse_f32(item.quoteVolume[1]) = <<>>
    THEN ParseError("Failed to parse quote volume")
    ELSE Ok((symbol :> [mark_price      |-> parse_f32(item.lastPrice[1])[1],
                        daily_price_chg |-> parse_f32(item.priceChangePercent[1])[1],
                        daily_volume    |-> parse_f32(item.quoteVolume[1])[1]]) @@ map)

RECURSIVE ticker_prices_loop(_, _, _)
ticker_prices_loop(parsed_response, i, map) ==
    IF i > Len(parsed_response) THEN Ok(map)
    ELSE LET r == ticker_prices_item(parsed_response[i], map) IN
         IF r.kind = "Err" THEN r
         ELSE ticker_prices_loop(parsed_response, i + 1, r.value)

\* fetch_ticker_prices, from the response text on.
fetch_ticker_prices(body) ==
    IF ~body.parses \/ body.items = <<>>
    THEN ParseError("Failed to parse response")
    ELSE ticker_prices_loop(body.items[1], 1, <<>>)

\* Bound on the number of items in a response.
MaxItems == 2

PriceFilter(tickSize) == [filterType |-> "PRICE_FILTER", value |-> tickSize]

LotSize(minQty) == [filterType |-> "LOT_SIZE", value |-> minQty]

\* A complete exchangeInfo record of an accepted symbol.
FullSymbol(symbol) ==
    [symbol       |-> <<symbol>>,
     status       |-> <<"TRADING">>,
     baseAsset    |-> SymbolParts[symbol].base,
     quoteAsset   |-> SymbolParts[symbol].quote,
     filters      |-> << <<PriceFilter(<<"0.01">>), LotSize(<<"1">>)>> >>,
     contractSize |-> <<1>>]

\* exchangeInfo records: complete ones, one without contractSize, one
\* without filters, one without PRICE_FILTER, one whose LOT_SIZE has no
\* minQty, one whose PRICE_FILTER has no tickSize, one of a base that is
\* not accepted, one that is not trading.
SymbolItems ==
    {FullSymbol("EURUSDT"),
     [FullSymbol("GBPUSDT") EXCEPT !.contractSize = <<>>],
     [FullSymbol("EURUSDT") EXCEPT !.filters = <<>>],
     [FullSymbol("EURUSDT") EXCEPT !.filters = << <<LotSize(<<"1">>)>> >>],
     [FullSymbol("EURUSDT") EXCEPT
         !.filters = << <<PriceFilter(<<"0.01">>), LotSize(<<>>)>> >>],
     [FullSymbol("EURUSDT") EXCEPT
         !.filters = << <<PriceFilter(<<>>), LotSize(<<"1">>)>> >>],
     FullSymbol("BTCUSDT"),
     [FullSymbol("EURUSDT") EXCEPT !.status = <<"BREAK">>]}

\* A complete 24hr record.
FullStats(symbol) ==
    [symbol             |-> <<symbol>>,
     lastPrice          |-> <<"1">>,
     priceChangePercent |-> <<"0.01">>,
     quoteVolume        |-> <<"1">>]

\* 24hr records: complete ones, one without lastPrice, one whose
\* quoteVolume is not a number, one of a base that is not accepted.
StatsItems ==
    {FullStats("EURUSDT"),
     FullStats("GBPUSDT"),
     [FullStats("EURUSDT") EXCEPT !.lastPrice = <<>>],
     [FullStats("EURUSDT") EXCEPT !.quoteVolume = <<"-">>],
     FullStats("BTCUSDT")}

ItemLists(Items) == UNION {[1..n -> Items] : n \in 0..MaxItems}

\* What a helper can get back: no response at all, or a response with the
\* used-weight header (an Option) and a body that parses or does not.
Responses(helper) ==
    {[kind |-> "error"]}
    \cup {[kind |-> "response", header |-> h,
           body |-> [parses |-> FALSE, items |-> <<>>]] : h \in {<<>>, <<1164>>}}
    \cup {[kind |-> "response", header |-> h,
           body |-> [parses |-> TRUE, items |-> <<items>>]] :
             h \in {<<>>, <<1164>>},
             items \in CASE helper = "fetch_ticksize"      -> ItemLists(SymbolItems)
                         [] helper = "fetch_ticker_prices" -> ItemLists(StatsItems)
                         [] OTHER                          -> {<<>>}}

\* What the helper returns on the response.
helper_result(helper, response) ==
    IF response.kind = "error" THEN FetchError
    ELSE CASE helper = "fetch_ticksize"      -> fetch_ticksize(response.body)
           [] helper = "fetch_ticker_prices" -> fetch_ticker_prices(response.body)
           [] OTHER -> IF response.body.parses THEN Ok("parsed")
                       ELSE ParseError("Failed to parse response")

InitRest == Init /\ size_in_quote_ccy = FALSE

\* limiter::http_request_with_limiter and http_parse_with_limiter, up to
\* the admission: the helper asks the shared limiter for its weight and is
\* admitted or has to wait.
HttpWithLimiter(helper, weight) ==
    /\ rest = NoRest
    /\ LET r == prepare_request(limiter, weight) IN
         /\ limiter' = r.limiter
         /\ rest' = [helper |-> helper, weight |-> <<weight>>,
                     admitted |-> r.wait_time = <<>>,
                     stage |-> IF r.wait_time = <<>> THEN "admitted" ELSE "waiting"]
    /\ UNCHANGED <<rest_response, rest_result>>
    /\ UNCHANGED notRestVars

FetchDepth == HttpWithLimiter("fetch_depth", 20)

FetchKlines == HttpWithLimiter("fetch_klines", 2)

FetchTickerPrices == HttpWithLimiter("fetch_ticker_prices", 40)

FetchHistoricalOi == HttpWithLimiter("fetch_historical_oi", 12)

\* fetch_ticksize: HTTP_CLIENT.get(&url).send() at once; the weight it
\* declares is not used.
FetchTicksize ==
    /\ rest = NoRest
    /\ rest' = [helper |-> "fetch_ticksize", stage |-> "sent", weight |-> <<>>,
                admitted |-> FALSE]
    /\ UNCHANGED <<limiter, rest_response, rest_result>>
    /\ UNCHANGED notRestVars

\* The wait the limiter asked for is over: the window has been refilled and
\* the weight is counted in the new one.
RestWaitElapsed ==
    /\ rest.stage = "waiting"
    /\ limiter' = prepare_request([limiter EXCEPT !.bucket = DynamicBucket_refill(@)],
                                  rest.weight[1]).limiter
    /\ rest' = [rest EXCEPT !.stage = "admitted", !.admitted = TRUE]
    /\ UNCHANGED <<rest_response, rest_result>>
    /\ UNCHANGED notRestVars

\* The admitted request is issued.
RestSend ==
    /\ rest.stage = "admitted"
    /\ rest' = [rest EXCEPT !.stage = "sent"]
    /\ UNCHANGED <<limiter, rest_response, rest_result>>
    /\ UNCHANGED notRestVars

\* The response arrives (or the request fails) and the helper returns.  A
\* helper that went through the limiter hands it the response.
RestRespond ==
    /\ rest.stage = "sent"
    /\ \E response \in Responses(rest.helper) :
         /\ rest_response' = response
         /\ rest_result' = helper_result(rest.helper, response)
         /\ limiter' = IF rest.weight # <<>> /\ response.kind = "response"
                       THEN update_from_response(limiter, response.header)
                       ELSE limiter
    /\ rest' = [rest EXCEPT !.stage = "done"]
    /\ UNCHANGED notRestVars

\* The caller has taken the result.
RestReturn ==
    /\ rest.stage = "done"
    /\ rest' = NoRest
    /\ rest_response' = NoResponse
    /\ rest_result' = NoResult
    /\ UNCHANGED limiter
    /\ UNCHANGED notRestVars

NextRest ==
    \/ FetchDepth
    \/ FetchKlines
    \/ FetchTicksize
    \/ FetchTickerPrices
    \/ FetchHistoricalOi
    \/ RestWaitElapsed
    \/ RestSend
    \/ RestRespond
    \/ RestReturn

SpecRest == InitRest /\ [][NextRest]_vars

---------------------------------------------------------------------------
\* connect.rs: connect_ws, setup_tcp, upgrade_to_tls, upgrade_to_websocket.

\* What the network and the domain do to one call: whether the TCP connect,
\* set_nodelay and set_tcp_keepalive succeed, whether the domain is a valid
\* ServerName, whether the TLS handshake, the building of the upgrade
\* request and the websocket handshake succeed.
ConnEnvs ==
    [tcp_connect : BOOLEAN, set_nodelay : BOOLEAN, set_tcp_keepalive : BOOLEAN,
     server_name : BOOLEAN, tls_connect : BOOLEAN, request : BOOLEAN,
     handshake : BOOLEAN]

WebsocketError == [kind |-> "Err", error |-> "WebsocketError"]

InitConnect == Init /\ size_in_quote_ccy = FALSE

\* connect_ws is called.  attempts lists the network operations made.
CallConnectWs ==
    /\ conn.pc = "idle"
    /\ \E env \in ConnEnvs :
         conn' = [pc |-> "setup_tcp", env |-> env, attempts |-> <<>>, warned |-> FALSE]
    /\ UNCHANGED notConnVars

\* Mutant of SetupTcp: a failure to set keepalive is returned as an error.
SetupTcp_KeepaliveFatal ==
    /\ conn.pc = "setup_tcp"
    /\ LET attempts == Append(conn.attempts, "tcp_connect") IN
       IF ~conn.env.tcp_connect \/ ~conn.env.set_nodelay \/ ~conn.env.set_tcp_keepalive
       THEN conn' = [pc |-> "returned", env |-> conn.env, attempts |-> attempts,
                     warned |-> FALSE, result |-> WebsocketError]
       ELSE conn' = [conn EXCEPT !.pc = "upgrade_to_tls", !.attempts = attempts]
    /\ UNCHANGED notConnVars

\* setup_tcp: TcpStream::connect, set_nodelay, set_tcp_keepalive (a failure
\* of which is only logged).
SetupTcp ==
    /\ conn.pc = "setup_tcp"
    /\ LET attempts == Append(conn.attempts, "tcp_connect") IN
       IF ~conn.env.tcp_connect \/ ~conn.env.set_nodelay
       THEN conn' = [pc |-> "returned", env |-> conn.env, attempts |-> attempts,
                     warned |-> FALSE, result |-> WebsocketError]
       ELSE conn' = [conn EXCEPT !.pc = "upgrade_to_tls", !.attempts = attempts,
                                 !.warned = ~conn.env.set_tcp_keepalive]
    /\ UNCHANGED notConnVars

\* upgrade_to_tls: ServerName::try_from, then the handshake.
UpgradeToTls ==
    /\ conn.pc = "upgrade_to_tls"
    /\ IF ~conn.env.server_name
       THEN conn' = [pc |-> "returned", env |-> conn.env, attempts |-> conn.attempts,
                     warned |-> conn.warned, result |-> ParseError("invalid dnsname")]
       ELSE LET attempts == Append(conn.attempts, "tls_handshake") IN
            IF ~conn.env.tls_connect
            THEN conn' = [pc |-> "returned", env |-> conn.env, attempts |-> attempts,
                          warned |-> conn.warned, result |-> WebsocketError]
            ELSE conn' = [conn EXCEPT !.pc = "upgrade_to_websocket",
                                      !.attempts = attempts]
    /\ UNCHANGED notConnVars

\* upgrade_to_websocket: the request is built, then the handshake.
UpgradeToWebsocket ==
    /\ conn.pc = "upgrade_to_websocket"
    /\ IF ~conn.env.request
       THEN conn' = [pc |-> "returned", env |-> conn.env, attempts |-> conn.attempts,
                     warned |-> conn.warned, result |-> WebsocketError]
       ELSE LET attempts == Append(conn.attempts, "websocket_upgrade") IN
            conn' = [pc |-> "returned", env |-> conn.env, attempts |-> attempts,
                     warned |-> conn.warned,
                     result |-> IF conn.env.handshake THEN Ok("FragmentCollector")
                                ELSE WebsocketError]
    /\ UNCHANGED notConnVars

\* The caller has taken the Result.
ConnectWsReturn ==
    /\ conn.pc = "returned"
    /\ conn' = NoConn
    /\ UNCHANGED notConnVars

NextConnect ==
    \/ CallConnectWs
    \/ SetupTcp
    \/ UpgradeToTls
    \/ UpgradeToWebsocket
    \/ ConnectWsReturn

SpecConnect == InitConnect /\ [][NextConnect]_vars

---------------------------------------------------------------------------
\* Depth::mid_price on books of tick-rounded prices.

\* Atomic units of a Price in 1.0.
PriceScale == 2

\* Price levels of the bid and of the ask side: 98.0 to 100.0 and 100.0 to
\* 102.0, multiples of MinTick.
MidBidPrices == {98 * PriceScale, 99 * PriceScale, 100 * PriceScale}

MidAskPrices == {100 * PriceScale, 101 * PriceScale, 102 * PriceScale}

MidQtys == {QtyDenom, 2 * QtyDenom, 3 * QtyDenom}

PriceMaps(Prices) == UNION {[S -> MidQtys] : S \in SUBSET Prices}

MidDepths == [bids : PriceMaps(MidBidPrices), asks : PriceMaps(MidAskPrices)]

InitMid == Init /\ size_in_quote_ccy = FALSE

MidPrice ==
    /\ ~mid.called
    /\ \E depth \in MidDepths :
         mid' = [called |-> TRUE, depth |-> depth, price |-> mid_price(depth)]
    /\ UNCHANGED notMidVars

\* The caller has taken the Option.
MidReturn ==
    /\ mid.called
    /\ mid' = NoMid
    /\ UNCHANGED notMidVars

NextMid ==
    \/ MidPrice
    \/ MidReturn

SpecMid == InitMid /\ [][NextMid]_vars

---------------------------------------------------------------------------
\* calc_qty on raw quantities, prices and contract sizes.

\* Largest raw quantity and price handed to calc_qty.
MaxQty == 2

MaxPrice == 3

\* Raw quantities, in 1/QtyDenom.
RawQtys == 0..(MaxQty * QtyDenom)

RawPrices == 1..MaxPrice

\* contract_size: None, or a whole number of units per contract.
ContractSizes == {<<>>, <<1>>, <<2>>}

InitQty == Init /\ size_in_quote_ccy = FALSE

CalcQty ==
    /\ ~qty_call.called
    /\ \E qty \in RawQtys, price \in RawPrices, csize \in ContractSizes,
          quote \in BOOLEAN :
         qty_call' = [called |-> TRUE, qty |-> qty, price |-> price,
                      contract_size |-> csize, size_in_quote_ccy |-> quote,
                      result |-> calc_qty(qty, price, csize, quote)]
    /\ UNCHANGED notQtyVars

\* The caller has taken the quantity.
CalcQtyReturn ==
    /\ qty_call.called
    /\ qty_call' = NoQtyCall
    /\ UNCHANGED notQtyVars

NextQty ==
    \/ CalcQty
    \/ CalcQtyReturn

SpecQty == InitQty /\ [][NextQty]_vars

---------------------------------------------------------------------------
\* fetch_historical_oi: the request built from the range (forex.rs 1010-1032).
\* Times are counted in a unit of which thirty days hold ThirtyDays, and u64
\* is scaled to WordBits bits.

\* latest start and end of a range
MaxTime == 5

\* thirty_days_ms
ThirtyDays == 3

\* width of u64
WordBits == 10

\* the cap of num_intervals
OiLimitCap == 500

U64 == 2 ^ WordBits

Min(a, b) == IF a < b THEN a ELSE b

Max(a, b) == IF a > b THEN a ELSE b

\* a - b on u64: when a < b the subtraction panics in a build with overflow
\* checks and wraps in a build without them.
sub_u64(a, b) ==
    IF a >= b
    THEN {[panic |-> FALSE, value |-> a - b]}
    ELSE {[panic |-> TRUE, value |-> 0],
          [panic |-> FALSE, value |-> (a - b) % U64]}

OiPanic == [kind |-> "panic"]

\* The query parameters fetch_historical_oi appends to the url, or a panic.
oi_request(range, now, interval_ms) ==
    IF range = <<>>
    THEN {[kind |-> "request", ranged |-> FALSE, limit |-> 400]}
    ELSE LET start == range[1][1]
             end   == range[1][2]
             from(ago) ==
                 IF ago.panic THEN {OiPanic}
                 ELSE LET adjusted_start ==
                              IF start < ago.value THEN ago.value ELSE start
                      IN {IF d.panic THEN OiPanic
                          ELSE [kind |-> "request", ranged |-> TRUE,
                                startTime |-> adjusted_start, endTime |-> end,
                                limit |-> Min(d.value \div interval_ms,
                                              OiLimitCap)] :
                            d \in sub_u64(end, adjusted_start)}
         IN UNION {from(ago) : ago \in sub_u64(now, ThirtyDays)}

\* range: None, or Some((start, end)) with start <= end
OiRanges ==
    {<<>>} \cup {<<r>> : r \in {x \in (0..MaxTime) \X (0..MaxTime) : x[1] <= x[2]}}

\* SystemTime::now(), later than thirty days after the epoch
OiNows == ThirtyDays..(MaxTime + ThirtyDays)

\* period.to_milliseconds()
OiIntervals == {1, 2}

InitOi == Init /\ size_in_quote_ccy = FALSE

\* fetch_historical_oi is called and builds its url.
BuildOiRequest ==
    /\ ~oi.called
    /\ \E range \in OiRanges, now \in OiNows, interval_ms \in OiIntervals :
         \E res \in oi_request(range, now, interval_ms) :
            oi' = [called |-> TRUE, range |-> range, now |-> now,
                   interval_ms |-> interval_ms, result |-> res]
    /\ UNCHANGED notOiVars

\* The call is over (the request was sent, or the task panicked).
OiReturn ==
    /\ oi.called
    /\ oi' = NoOi
    /\ UNCHANGED notOiVars

NextOi ==
    \/ BuildOiRequest
    \/ OiReturn

SpecOi == InitOi /\ [][NextOi]_vars

---------------------------------------------------------------------------
\* LayoutManager (modal/layout_manager.rs): one action per Message of update.

\* Uuid::new_v4() calls over the life of the manager
MaxUuids == 2

\* chars().take(20)
NameCap == 20

take(s, n) == SubSeq(s, 1, IF Len(s) < n THEN Len(s) ELSE n)

\* A name of NameCap characters and one of NameCap + 1.
LongName == [i \in 1..NameCap |-> "a"]

TooLongName == LongName \o <<"b">>

\* Names typed into the rename box.
TypedNames == {<<"a">>, LongName, TooLongName}

\* Names submitted by the rename box, which holds what Renaming left in it.
SubmittedNames == {take(n, NameCap) : n \in TypedNames}

Uuids == 1..MaxUuids

Editings ==
    {EditingNone, EditingPreview}
        \cup {EditingConfirmingDelete(id) : id \in Uuids}
        \cup {EditingRenaming(id, n) : id \in Uuids, n \in SubmittedNames}

Names(layouts) == {layouts[i].name : i \in 1..Len(layouts)}

Ids(layouts) == {layouts[i].unique : i \in 1..Len(layouts)}

\* Vec::retain
RECURSIVE retain(_, _)
retain(layouts, id) ==
    IF layouts = <<>> THEN <<>>
    ELSE IF Head(layouts).unique # id
         THEN <<Head(layouts)>> \o retain(Tail(layouts), id)
         ELSE retain(Tail(layouts), id)

\* generate_unique_layout_name: the first "Layout {counter}" not in use.
RECURSIVE generate_loop(_, _)
generate_loop(layouts, counter) ==
    IF LayoutName(counter) \notin Names(layouts)
    THEN LayoutName(counter)
    ELSE generate_loop(layouts, counter + 1)

generate_unique_layout_name(layouts) == generate_loop(layouts, 1)

\* format!("{proposed} ({suffix})")
Suffixed(proposed, suffix) ==
    proposed \o <<" ", "(">> \o <<LayoutName(suffix)[8]>> \o <<")">>

\* The while loop of ensure_unique_name.
RECURSIVE ensure_loop(_, _, _, _, _)
ensure_loop(layouts, proposed, current_id, final_name, suffix) ==
    IF \E i \in 1..Len(layouts) :
          layouts[i].unique # current_id /\ layouts[i].name = final_name
    THEN ensure_loop(layouts, proposed, current_id,
                     Suffixed(proposed, suffix), suffix + 1)
    ELSE final_name

\* ensure_unique_name
ensure_unique_name(layouts, proposed, current_id) ==
    take(ensure_loop(layouts, proposed, current_id, proposed, 2), NameCap)

InitLayout == Init /\ size_in_quote_ccy = FALSE

\* Message::SelectActive(id), with the id of a layout of the list
SelectActive ==
    /\ \E id \in Ids(lm.layouts) :
         lm' = [lm EXCEPT !.active_layout_id = <<id>>]
    /\ UNCHANGED notLmVars

\* Message::ToggleEditMode(new_mode)
ToggleEditMode ==
    /\ \E new_mode \in Editings :
         lm' = [lm EXCEPT
                  !.edit_mode =
                      IF \/ new_mode.kind = "Preview" /\ lm.edit_mode.kind = "Preview"
                         \/ /\ new_mode.kind = "Renaming"
                            /\ lm.edit_mode.kind = "Renaming"
                            /\ new_mode.id = lm.edit_mode.id
                      THEN EditingNone
                      ELSE new_mode]
    /\ UNCHANGED notLmVars

\* Message::AddLayout
AddLayout ==
    /\ lm.uuids < MaxUuids
    /\ LET unique == lm.uuids + 1 IN
         lm' = [lm EXCEPT
                  !.layouts = Append(lm.layouts,
                                     [unique |-> unique,
                                      name |-> generate_unique_layout_name(lm.layouts)]),
                  !.uuids = unique]
    /\ UNCHANGED notLmVars

\* Mutant of OnRemoveLayout: the active layout can be removed too.
OnRemoveLayout_Active(id) ==
    lm' = [lm EXCEPT !.layouts = retain(lm.layouts, id),
                     !.edit_mode = EditingPreview]

\* The Message::RemoveLayout(id) arm of update.
OnRemoveLayout(id) ==
    IF <<id>> = lm.active_layout_id
    THEN lm' = lm
    ELSE lm' = [lm EXCEPT !.layouts = retain(lm.layouts, id),
                          !.edit_mode = EditingPreview]

\* Message::RemoveLayout(id)
RemoveLayout ==
    /\ \E id \in Uuids : OnRemoveLayout(id)
    /\ UNCHANGED notLmVars

\* Message::SetLayoutName(id, new_name)
SetLayoutName ==
    /\ \E id \in Uuids, new_name \in SubmittedNames :
         LET unique_name == ensure_unique_name(lm.layouts, new_name, id) IN
         lm' = [lm EXCEPT
                  !.layouts = [i \in 1..Len(lm.layouts) |->
                                 IF lm.layouts[i].unique = id
                                 THEN [lm.layouts[i] EXCEPT !.name = unique_name]
                                 ELSE lm.layouts[i]],
                  !.edit_mode = EditingPreview]
    /\ UNCHANGED notLmVars

\* Message::Renaming(name)
Renaming ==
    /\ \E name \in TypedNames :
         lm' = [lm EXCEPT
                  !.edit_mode =
                      IF lm.edit_mode.kind = "Renaming"
                      THEN EditingRenaming(lm.edit_mode.id, take(name, NameCap))
                      ELSE EditingNone]
    /\ UNCHANGED notLmVars

\* Message::CloneLayout(id): update returns Some(Action::Clone(id)) and
\* changes nothing.
CloneLayout ==
    /\ \E id \in Uuids : lm' = lm
    /\ UNCHANGED notLmVars

\* Message::Reorder(event): column_drag::reorder_vec moves one layout of the
\* list to another index.
Reorder ==
    /\ \E from \in 1..Len(lm.layouts), to \in 1..Len(lm.layouts) :
         LET item == lm.layouts[from]
             rest_ == [i \in 1..(Len(lm.layouts) - 1) |->
                         IF i < from THEN lm.layouts[i] ELSE lm.layouts[i + 1]]
             moved == [i \in 1..Len(lm.layouts) |->
                         IF i < to THEN rest_[i]
                         ELSE IF i = to THEN item ELSE rest_[i - 1]]
         IN lm' = [lm EXCEPT !.layouts = moved]
    /\ UNCHANGED notLmVars

NextLayout ==
    \/ SelectActive
    \/ ToggleEditMode
    \/ AddLayout
    \/ RemoveLayout
    \/ SetLayoutName
    \/ Renaming
    \/ CloneLayout
    \/ Reorder

SpecLayout == InitLayout /\ [][NextLayout]_vars

---------------------------------------------------------------------------
\* The audio settings (modal/audio.rs, data/audio.rs): one action per
\* Message of AudioStream::update.  streams maps an Exchange to a map from
\* Ticker to StreamCfg.

Exchanges == {"BinanceLinear", "BybitLinear"}

Tickers == {"BTCUSDT", "ETHUSDT"}

\* Threshold values of SetThreshold
Thresholds == {[kind |-> "Count", value |-> 10], [kind |-> "Qty", value |-> 1]}

\* Values of the volume slider
SoundLevels == {0, 50, 150}

\* StreamCfg::default()
StreamCfg_default == [enabled |-> TRUE, threshold |-> [kind |-> "Count", value |-> 10]]

\* HashMap::insert
HashInsert(m, k, v) == [x \in (DOMAIN m) \cup {k} |-> IF x = k THEN v ELSE m[x]]

\* is_stream_audio_enabled for StreamKind::DepthAndTrades of (exchange, ticker)
is_stream_audio_enabled(self_streams, exchange, ticker) ==
    /\ exchange \in DOMAIN self_streams
    /\ ticker \in DOMAIN self_streams[exchange]
    /\ self_streams[exchange][ticker].enabled

\* The Message::ToggleStream(is_checked, (exchange, ticker)) arm of update.
toggle_stream(self_streams, is_checked, exchange, ticker) ==
    IF is_checked
    THEN IF exchange \in DOMAIN self_streams
         THEN IF ticker \in DOMAIN self_streams[exchange]
              THEN [self_streams EXCEPT ![exchange][ticker].enabled = TRUE]
              ELSE [self_streams EXCEPT
                      ![exchange] = HashInsert(@, ticker, StreamCfg_default)]
         ELSE HashInsert(self_streams, exchange,
                         HashInsert([t \in {} |-> 0], ticker, StreamCfg_default))
    ELSE IF exchange \in DOMAIN self_streams
         THEN IF ticker \in DOMAIN self_streams[exchange]
              THEN [self_streams EXCEPT ![exchange][ticker].enabled = FALSE]
              ELSE self_streams
         ELSE HashInsert(self_streams, exchange,
                         HashInsert([t \in {} |-> 0], ticker, StreamCfg_default))

InitAudio == Init /\ size_in_quote_ccy = FALSE

\* Message::SoundLevelChanged(value)
SoundLevelChanged ==
    /\ \E value \in SoundLevels :
         audio' = [audio EXCEPT
                     !.volume = IF value = 0 THEN <<>>
                                ELSE <<IF value > 100 THEN 100 ELSE value>>]
    /\ UNCHANGED notAudioVars

OnToggleStream(is_checked, exchange, ticker) ==
    audio' = [audio EXCEPT
                !.streams = toggle_stream(audio.streams, is_checked, exchange, ticker)]

\* Message::ToggleStream(is_checked, (exchange, ticker))
ToggleStream ==
    /\ \E is_checked \in BOOLEAN, exchange \in Exchanges, ticker \in Tickers :
         OnToggleStream(is_checked, exchange, ticker)
    /\ UNCHANGED notAudioVars

\* Message::ToggleCard(exchange, ticker)
ToggleCard ==
    /\ \E exchange \in Exchanges, ticker \in Tickers :
         audio' = [audio EXCEPT
                     !.expanded_card =
                         IF audio.expanded_card = <<<<exchange, ticker>>>>
                         THEN <<>>
                         ELSE <<<<exchange, ticker>>>>]
    /\ UNCHANGED notAudioVars

\* Message::SetThreshold(exchange, ticker, threshold)
SetThreshold ==
    /\ \E exchange \in Exchanges, ticker \in Tickers, threshold \in Thresholds :
         audio' = IF /\ exchange \in DOMAIN audio.streams
                     /\ ticker \in DOMAIN audio.streams[exchange]
                  THEN [audio EXCEPT
                          !.streams[exchange][ticker].threshold = threshold]
                  ELSE audio
    /\ UNCHANGED notAudioVars

\* Message::RetryInit: SoundCache::with_default_sounds succeeds or fails.
RetryInit ==
    /\ \E ok \in BOOLEAN :
         audio' = [audio EXCEPT !.cache = ok, !.init_error = ~ok]
    /\ UNCHANGED notAudioVars

NextAudio ==
    \/ SoundLevelChanged
    \/ ToggleStream
    \/ ToggleCard
    \/ SetThreshold
    \/ RetryInit

SpecAudio == InitAudio /\ [][NextAudio]_vars

---------------------------------------------------------------------------
\* Properties.

Last(s) == s[Len(s)]

\* The step sends a DepthReceived event, which only an applied diff does.
DepthEmitted ==
    /\ Len(output') = Len(output) + 1
    /\ Last(output').tag = "DepthReceived"

\* The step sends a Disconnected event.
DisconnectedEmitted ==
    /\ Len(output') = Len(output) + 1
    /\ Last(output').tag = "Disconnected"

\* The step is the handling of depth frame de by the read loop.
HandlesDepth(de) == AtReadFrame /\ OnDepth(de) /\ UNCHANGED size_in_quote_ccy

\* The task is in the State::Disconnected arm: at its top, asleep for the
\* backoff, or awaiting the snapshot.
InDisconnectedArm ==
    state = "Disconnected" /\ pc \in {"loop", "backoff", "seed_wait"}

\* The step sends a Connected event.
ConnectedEmitted ==
    /\ Len(output') = Len(output) + 1
    /\ Last(output') = EvConnected

\* The step is the handling of message msg by the read loop of the market
\* stream.
Handles(msg) == AtReadFrame /\ OnMessage(msg) /\ UNCHANGED size_in_quote_ccy

\* The step is the handling of message msg by the read loop of the kline
\* stream.
KlineHandles(msg) == KlineAtReadFrame /\ KlineOnMessage(msg)

\* The Text frames of the model.
TextFrames == TradeFrames \cup DepthFrames \cup KlineFrames \cup UnparsedFrames

\* The Text frames for which feed_de returns Err.
RejectedFrames == {msg \in TextFrames : ~feed_de(msg.payload).ok}

\* The level an order is booked at.
Level(order) == round_to_min_tick(order.price, MinTick)

Levels(orders) == {Level(orders[i]) : i \in 1..Len(orders)}

Mentions(orders, k) == k \in Levels(orders)

\* The quantity of the last order of the list booked at level k.
LastQty(orders, k) ==
    LET idx == {i \in 1..Len(orders) : Level(orders[i]) = k}
        top == CHOOSE i \in idx : \A j \in idx : j <= i
    IN orders[top].qty

AllPositive(m) == \A k \in DOMAIN m : m[k] > 0

\* What a diff with the given orders may do to one side: a level whose last
\* order has qty 0 is absent afterwards, no level the diff mentions is left
\* with value 0, and no level the diff does not mention appears.
C3_Side(old, new, orders) ==
    \A k \in (DOMAIN old) \cup (DOMAIN new) \cup Levels(orders) :
        /\ (Mentions(orders, k) /\ LastQty(orders, k) = 0) => k \notin DOMAIN new
        /\ (k \in DOMAIN new /\ new[k] = 0)
              => (~Mentions(orders, k) /\ k \in DOMAIN old /\ old[k] = 0)
        /\ (~Mentions(orders, k) /\ k \notin DOMAIN old) => k \notin DOMAIN new

\* An empty map into which the orders are inserted one by one.
RECURSIVE InsertAll(_, _)
InsertAll(m, orders) ==
    IF orders = <<>>
    THEN m
    ELSE InsertAll(MapInsert(m, Level(Head(orders)), Head(orders).qty), Tail(orders))

\* C1: every diff with final_id <= cache.last_update_id is rejected: a diff
\* is applied only when its final_id (the cache's last_update_id after the
\* update) is strictly greater than the cache's last_update_id before it,
\* and the handling of a diff with final_id <= last_update_id leaves the
\* cache (last_update_id, time, bids, asks) unchanged.
C1_StaleDiffRejected ==
    [][ /\ DepthEmitted => orderbook'.last_update_id > orderbook.last_update_id
        /\ AtReadFrame
             => \A de \in PerpDepths :
                  (de.final_id <= orderbook.last_update_id /\ HandlesDepth(de))
                     => orderbook' = orderbook
        /\ (pc = "after_resync" /\ de_depth.final_id <= orderbook.last_update_id)
                => orderbook' = orderbook ]_vars

\* C2: with prev_id # 0, a non-stale diff whose prev_final_id differs from
\* prev_id is not applied, sets the state to Disconnected and sends exactly
\* one Disconnected event; while the task is Disconnected no diff is applied
\* and the cache changes only by the snapshot of a connect cycle, which
\* resets prev_id and sends Connected.
C2_GapDisconnects ==
    [][ /\ (AtReadFrame /\ prev_id # 0)
             => \A de \in PerpDepths :
                  ( /\ ~IsStale(de, orderbook.last_update_id)
                    /\ de.prev_final_id # prev_id
                    /\ HandlesDepth(de) )
                     => /\ orderbook' = orderbook
                        /\ state' = "Disconnected"
                        /\ output' = Append(output, EvDisconnected("Out of sync"))
                        /\ pc' = "loop"
        /\ InDisconnectedArm
             => /\ ~DepthEmitted
                /\ orderbook' # orderbook
                     => /\ state' = "Connected"
                        /\ prev_id' = 0
                        /\ output' = Append(output, EvConnected) ]_vars

\* A gap has disconnected the stream.
C2_Witness ==
    /\ AtDisconnected
    /\ prev_id # 0
    /\ output = <<EvDisconnected("Out of sync")>>

\* C3: after a diff, a level whose last order in the diff has qty 0 is
\* absent from the map of its side; the diff leaves no level it mentions
\* with value 0 and creates no level it does not mention.
C3_ZeroQtyRemoves ==
    new_depth.kind = "Diff" =>
        /\ C3_Side(old_cache.depth.bids, cache.depth.bids, new_depth.payload.bids)
        /\ C3_Side(old_cache.depth.asks, cache.depth.asks, new_depth.payload.asks)

\* A diff whose last word on a level the book held is qty 0, after a
\* non-zero order for the same level earlier in the same diff.
C3_Witness ==
    /\ new_depth.kind = "Diff"
    /\ Len(new_depth.payload.bids) = 2
    /\ new_depth.payload.bids[1].qty # 0
    /\ new_depth.payload.bids[2].qty = 0
    /\ Level(new_depth.payload.bids[1]) = Level(new_depth.payload.bids[2])
    /\ Level(new_depth.payload.bids[2]) \in DOMAIN old_cache.depth.bids
    /\ Level(new_depth.payload.bids[2]) \notin DOMAIN cache.depth.bids

\* C4: every entry of the bids and asks maps of the cache has qty > 0.
C4_AllQtyPositive ==
    /\ AllPositive(orderbook.depth.bids)
    /\ AllPositive(orderbook.depth.asks)

\* C5: a Snapshot update leaves the maps equal to an empty map into which
\* every level of the payload is inserted in payload order, whatever the
\* cache held before, and sets last_update_id and time to the snapshot's.
C5_SnapshotReplacesAll ==
    new_depth.kind = "Snapshot" =>
        /\ cache.depth.bids = InsertAll(EmptyMap, new_depth.payload.bids)
        /\ cache.depth.asks = InsertAll(EmptyMap, new_depth.payload.asks)
        /\ DOMAIN cache.depth.bids \subseteq Levels(new_depth.payload.bids)
        /\ DOMAIN cache.depth.asks \subseteq Levels(new_depth.payload.asks)
        /\ cache.last_update_id = new_depth.payload.last_update_id
        /\ cache.time = new_depth.payload.time

\* A snapshot that drops a level the cache held and lists one level twice
\* with different quantities.
C5_Witness ==
    /\ new_depth.kind = "Snapshot"
    /\ \E k \in DOMAIN old_cache.depth.bids : k \notin DOMAIN cache.depth.bids
    /\ DOMAIN old_cache.depth.asks # {}
    /\ DOMAIN cache.depth.asks = {}
    /\ Len(new_depth.payload.bids) = 2
    /\ Level(new_depth.payload.bids[1]) = Level(new_depth.payload.bids[2])
    /\ new_depth.payload.bids[1].qty # new_depth.payload.bids[2].qty
    /\ old_cache.last_update_id # cache.last_update_id

C7_ReadLoopNotBlocked == resync_tasks > 0 => AtReadFrame

\* C8: when the resync fetch completes, either the cache is reseeded with
\* the fetched snapshot (success), or a Disconnected event is sent and the
\* state is Disconnected afterwards (failure).
C8_ResyncOutcome ==
    [][ (pc = "resync_wait" /\ pc' = "after_resync")
          => \/ /\ output' = output
                /\ state' = state
                /\ \E fetched \in FetchedDepths :
                     orderbook' = LocalDepthCache_update(
                         orderbook,
                         Snapshot(fetch_depth(fetched, contract_size, size_in_quote_ccy)),
                         MinTick)
             \/ /\ DisconnectedEmitted
                /\ state' = "Disconnected"
                /\ orderbook' = orderbook ]_vars

\* C9: at most one resync fetch is in flight; already_fetching is true
\* exactly while it is, and false once try_resync has completed.
C9_SingleResync ==
    /\ resync_tasks <= 1
    /\ already_fetching <=> resync_tasks = 1
    /\ already_fetching <=> pc = "resync_wait"

\* A resync fetch is in flight.
C9_Witness ==
    /\ pc = "resync_wait"
    /\ already_fetching
    /\ resync_tasks = 1

\* C10: while the state is Disconnected no diff is applied and no
\* DepthReceived is sent; the cache changes only by the snapshot of a
\* connect cycle.
C10_NoDiffWhileDisconnected ==
    [][ state = "Disconnected"
          => /\ ~DepthEmitted
             /\ orderbook' # orderbook => (state' = "Connected" /\ prev_id' = 0) ]_vars

\* C11: the Depth read through an Arc clone carried by an emitted event is,
\* at every later moment (also in the middle of an update of the live
\* cache), the Depth it held when the event was built, and that Depth is
\* the result of a whole update (bids and asks both applied).
C11_SnapshotImmutable ==
    \A i \in 1..Len(handles) :
        /\ handles[i].ptr \in DOMAIN heap
        /\ heap[handles[i].ptr] = handles[i].seen
        /\ handles[i].seen = handles[i].whole

\* Two clones of different ages are held while the live cache, which has
\* moved on from both, is in the middle of a further update.
C11_Witness ==
    /\ Len(handles) = 2
    /\ arc_pc = "bids_done"
    /\ handles[1].ptr # handles[2].ptr
    /\ handles[1].seen # handles[2].seen
    /\ depth_arc \notin {handles[1].ptr, handles[2].ptr}
    /\ heap[depth_arc] \notin {handles[1].seen, handles[2].seen}

\* C12: a received trade is appended at the end of the trade buffer; the
\* buffer changes in no other way except that a DepthReceived event takes
\* the whole buffer, in order, and leaves it empty.
C12_TradesBatched ==
    [][ /\ AtReadFrame
             => \A msg \in TradeFrames :
                  Handles(msg)
                     => /\ Len(trades_buffer') = Len(trades_buffer) + 1
                        /\ SubSeq(trades_buffer', 1, Len(trades_buffer)) = trades_buffer
                        /\ Last(trades_buffer').time = msg.payload.data.time
                        /\ Last(trades_buffer').is_sell = msg.payload.data.is_sell
                        /\ output' = output
        /\ DepthEmitted
             => /\ Last(output').trades = trades_buffer
                /\ trades_buffer' = <<>>
        /\ (~DepthEmitted /\ trades_buffer' # trades_buffer)
             => /\ AtReadFrame
                /\ \E msg \in TradeFrames : Handles(msg) ]_vars

\* A DepthReceived event has taken a batch of two different trades, the
\* sell after the buy, and the buffer is empty.
C12_Witness ==
    /\ output # <<>>
    /\ output[1].tag = "DepthReceived"
    /\ Len(output[1].trades) = 2
    /\ ~output[1].trades[1].is_sell
    /\ output[1].trades[2].is_sell
    /\ trades_buffer = <<>>

\* C13: in both streams a failed connect attempt of the Disconnected arm
\* sends nothing before the backoff sleep; when the sleep is over exactly
\* one Disconnected event is sent and the task is back at the top of the
\* Disconnected arm, where alone connect attempts are made.
C13_ConnectFailureBacksOff ==
    [][ /\ (AtDisconnected /\ (pc' # pc \/ Len(output') > Len(output)))
             => /\ output' = output
                /\ state' = "Disconnected"
                /\ pc' \in {"backoff", "seed_wait"}
        /\ pc = "backoff"
             => /\ state = "Disconnected"
                /\ Len(output') > Len(output) \/ pc' # pc
                     => /\ output' = Append(output,
                               EvDisconnected("Failed to connect to websocket"))
                        /\ state' = "Disconnected"
                        /\ pc' = "loop"
                        /\ orderbook' = orderbook
        /\ (pc' = "backoff" /\ pc # "backoff") => AtDisconnected
        /\ (KlineAtDisconnected
              /\ (kline_pc' # kline_pc \/ Len(kline_output') > Len(kline_output)))
             => \/ /\ kline_output' = kline_output
                   /\ kline_state' = "Disconnected"
                   /\ kline_pc' = "backoff"
                \/ /\ kline_output' = Append(kline_output, EvConnected)
                   /\ kline_state' = "Connected"
                   /\ kline_pc' = "loop"
        /\ kline_pc = "backoff"
             => /\ kline_state = "Disconnected"
                /\ Len(kline_output') > Len(kline_output) \/ kline_pc' # kline_pc
                     => /\ kline_output' = Append(kline_output,
                               EvDisconnected("Failed to connect to websocket"))
                        /\ kline_state' = "Disconnected"
                        /\ kline_pc' = "loop"
        /\ (kline_pc' = "backoff" /\ kline_pc # "backoff") => KlineAtDisconnected
      ]_vars

\* The kline stream has slept and reported a failed connect attempt.
C13_Witness ==
    /\ KlineAtDisconnected
    /\ kline_output = <<EvDisconnected("Failed to connect to websocket")>>

\* C14: Connected is sent only by the step that receives the snapshot of a
\* fetch issued after connect_ws succeeded; that step leaves the cache with
\* the snapshot's id, time and levels and prev_id = 0, and the state becomes
\* Connected in no other way.
C14_ConnectedAfterSeed ==
    [][ /\ ConnectedEmitted
             => /\ pc = "seed_wait"
                /\ state = "Disconnected"
                /\ state' = "Connected"
                /\ prev_id' = 0
                /\ \E fetched \in FetchedDepths :
                     LET snapshot == fetch_depth(fetched, contract_size,
                                                 size_in_quote_ccy)
                     IN /\ orderbook'.last_update_id = fetched.update_id
                        /\ orderbook'.time = fetched.time
                        /\ orderbook'.depth.bids = InsertAll(EmptyMap, snapshot.bids)
                        /\ orderbook'.depth.asks = InsertAll(EmptyMap, snapshot.asks)
        /\ (pc' = "seed_wait" /\ pc # "seed_wait")
             => /\ AtDisconnected
                /\ orderbook' = orderbook
                /\ output' = output
        /\ (state = "Disconnected" /\ state' = "Connected") => ConnectedEmitted
      ]_vars

\* The stream has just connected: Connected is in the channel, the cache
\* holds a snapshot with id 1 and a bid level, and prev_id is 0.
C14_Witness ==
    /\ AtReadFrame
    /\ output = <<EvConnected>>
    /\ prev_id = 0
    /\ orderbook.last_update_id = 1
    /\ orderbook.time \in SnapshotTimes
    /\ DOMAIN orderbook.depth.bids # {}

C16_CloseAndErrorDisconnect ==
    [][ /\ AtReadFrame
             => /\ Handles(CloseFrame)
                     => /\ state' = "Disconnected"
                        /\ output' = Append(output, EvDisconnected("Connection closed"))
                        /\ orderbook' = orderbook
                /\ ReadError
                     => /\ state' = "Disconnected"
                        /\ output' = Append(output, EvDisconnected("Error reading frame"))
                        /\ orderbook' = orderbook
                /\ \A msg \in OtherFrames :
                     Handles(msg)
                        => /\ state' = state
                           /\ orderbook' = orderbook
                           /\ trades_buffer' = trades_buffer
                           /\ output' = output
                /\ state' = "Disconnected" => DisconnectedEmitted
        /\ KlineAtReadFrame
             => /\ KlineHandles(CloseFrame)
                     => /\ kline_state' = "Disconnected"
                        /\ kline_output' = Append(kline_output,
                               EvDisconnected("Connection closed"))
                /\ KlineReadError
                     => /\ kline_state' = "Disconnected"
                        /\ kline_output' = Append(kline_output,
                               EvDisconnected("Error reading frame"))
                /\ \A msg \in OtherFrames :
                     KlineHandles(msg)
                        => /\ kline_state' = kline_state
                           /\ kline_output' = kline_output
                /\ kline_state' = "Disconnected"
                     => /\ Len(kline_output') = Len(kline_output) + 1
                        /\ Last(kline_output').tag = "Disconnected" ]_vars

\* The kline stream has left the Connected state on a read error.
C16_Witness ==
    /\ KlineAtDisconnected
    /\ kline_output = <<EvDisconnected("Error reading frame")>>

\* C17: the handling of a Text frame that feed_de rejects leaves the state
\* Connected and the cache, prev_id, the trade buffer and the channel as
\* they were.
C17_UnparsedSkipped ==
    [][ AtReadFrame
          => \A msg \in RejectedFrames :
               Handles(msg)
                  => /\ state' = "Connected"
                     /\ orderbook' = orderbook
                     /\ prev_id' = prev_id
                     /\ trades_buffer' = trades_buffer
                     /\ output' = output ]_vars

\* The read loop is at read_frame with a trade in the buffer and a diff
\* applied: a frame feed_de rejects leaves this state as it is.
C17_Witness ==
    /\ AtReadFrame
    /\ prev_id # 0
    /\ trades_buffer # <<>>
    /\ output = <<>>
    /\ \E msg \in RejectedFrames :
         /\ msg.payload.stream = "btcusdt@aggTrade"
         /\ ~msg.payload.stream_first
         /\ msg.payload.parses

EffectiveLimit == (LIMIT * (100 - LIMITER_BUFFER_PCT)) \div 100

\* This step is a call of prepare_request.
PrepareStep ==
    /\ limiter_call'.op = "prepare_request"
    /\ limiter_call' # limiter_call \/ limiter_ledger' # limiter_ledger
         \/ limiter_call'.wait_time # <<>>

\* C19: in a window in which no response has re-anchored the usage, a
\* prepare_request(weight) returns None exactly when the weights admitted
\* so far plus this weight stay within the effective limit: every call up
\* to the limit is admitted, the first one that would pass it has to wait.
C19_AdmitsUpToLimit ==
    [][ (PrepareStep /\ limiter_ledger.reported = <<>>)
          => (limiter_call'.wait_time = <<>>
                <=> limiter_ledger.local + limiter_call'.weight <= EffectiveLimit)
      ]_vars

\* Weights adding up to exactly the effective limit were admitted, and the
\* next request has been told to wait.
C19_Witness ==
    /\ limiter_call.op = "prepare_request"
    /\ limiter_call.wait_time # <<>>
    /\ limiter_ledger.reported = <<>>
    /\ limiter_ledger.local = EffectiveLimit

\* C20: once update_from_response has reported a usage lower than the
\* local estimate, prepare_request decides from the reported usage (plus
\* what was admitted since), not from the local estimate.
C20_ReanchoredOnReport ==
    [][ (/\ PrepareStep
         /\ limiter_ledger.reported # <<>>
         /\ limiter_ledger.reported[1] + limiter_ledger.since < limiter_ledger.local)
          => (limiter_call'.wait_time = <<>>
                <=> limiter_ledger.reported[1] + limiter_ledger.since
                      + limiter_call'.weight <= EffectiveLimit)
      ]_vars

\* A request has been admitted that the local estimate alone would have
\* made wait: with it the weights admitted in the window exceed the limit,
\* the usage reported by the server and what followed do not.
C20_Witness ==
    /\ limiter_call.op = "prepare_request"
    /\ limiter_call.wait_time = <<>>
    /\ limiter_ledger.reported # <<>>
    /\ limiter_ledger.local > EffectiveLimit
    /\ limiter_ledger.reported[1] + limiter_ledger.since <= EffectiveLimit

\* C21: should_exit_on_response returns true exactly for the statuses 429
\* and 418, and the call leaves the limiter as it was.
C21_ExitOn429Or418 ==
    [][ limiter_call'.op = "should_exit_on_response"
          => /\ limiter_call'.exit <=> limiter_call'.status \in {429, 418}
             /\ limiter' = limiter
      ]_vars

\* A 418 response has been judged a hard stop by a limiter that has
\* admitted requests.
C21_Witness ==
    /\ limiter_call.op = "should_exit_on_response"
    /\ limiter_call.status = 418
    /\ limiter_call.exit
    /\ limiter.bucket.used > 0

\* C22: no REST request is sent without a limiter admission for it: a
\* helper whose request has been issued was admitted by the shared limiter
\* for its weight.
C22_RequestsAdmitted == rest.stage = "sent" => rest.admitted

\* The record alone is taken into the result by the helper.
Accepted(helper, item) ==
    LET r == IF helper = "fetch_ticksize" THEN ticksize_item(item, <<>>)
             ELSE ticker_prices_item(item, <<>>)
    IN r.kind = "Ok" /\ r.value # <<>>

\* C23: fetch_ticksize and fetch_ticker_prices return Ok on every response
\* that parses, whatever records it holds, and the result has an entry for
\* every record that is valid and accepted.
C23_InvalidRecordsSkipped ==
    (/\ rest.stage = "done"
     /\ rest.helper \in {"fetch_ticksize", "fetch_ticker_prices"}
     /\ rest_response.kind = "response"
     /\ rest_response.body.parses)
      => /\ rest_result.kind = "Ok"
         /\ LET items == rest_response.body.items[1] IN
            \A i \in 1..Len(items) :
                Accepted(rest.helper, items[i])
                  => items[i].symbol[1] \in DOMAIN rest_result.value

ConnStages == <<"tcp_connect", "tls_handshake", "websocket_upgrade">>

\* The number of stages connect_ws gets through in env before one fails.
StagesPassed(env) ==
    IF ~(env.tcp_connect /\ env.set_nodelay) THEN 0
    ELSE IF ~(env.server_name /\ env.tls_connect) THEN 1
    ELSE IF ~(env.request /\ env.handshake) THEN 2
    ELSE 3

\* C24: the network operations of a call are a prefix of TCP connect, TLS
\* handshake, websocket upgrade, each made at most once; the call returns
\* Ok exactly when every stage succeeds (keepalive aside), and otherwise it
\* stops at the stage that failed, with ParseError when that failure is the
\* invalid DNS name and WebsocketError in every other case.
C24_ConnectOnceInOrder ==
    conn.pc # "idle" =>
      /\ Len(conn.attempts) <= Len(ConnStages)
      /\ conn.attempts = SubSeq(ConnStages, 1, Len(conn.attempts))
      /\ conn.pc = "returned" =>
           LET env == conn.env IN
           /\ conn.result.kind = "Ok" <=> StagesPassed(env) = Len(ConnStages)
           /\ conn.result.kind = "Err" =>
                /\ conn.result.error =
                     IF StagesPassed(env) = 1 /\ ~env.server_name
                     THEN "ParseError" ELSE "WebsocketError"
                /\ Len(conn.attempts) =
                     IF (StagesPassed(env) = 1 /\ ~env.server_name)
                          \/ (StagesPassed(env) = 2 /\ ~env.request)
                     THEN StagesPassed(env) ELSE StagesPassed(env) + 1

\* A call in which only set_tcp_keepalive failed has returned the
\* connected handle after all three stages.
C24_Witness ==
    /\ conn.pc = "returned"
    /\ ~conn.env.set_tcp_keepalive
    /\ conn.warned
    /\ conn.result.kind = "Ok"
    /\ conn.attempts = ConnStages

\* bids {100: 2, 99: 1}, asks {101: 3}
C25_Example ==
    [bids |-> (100 * PriceScale :> 2 * QtyDenom) @@ (99 * PriceScale :> QtyDenom),
     asks |-> (101 * PriceScale :> 3 * QtyDenom)]

\* C25: mid_price is None when either side is empty and otherwise Some of
\* the price m with 2 m = lowest ask + highest bid; on bids {100: 2, 99: 1}
\* and asks {101: 3} it is 100.5.
C25_MidPrice ==
    mid.called =>
      LET bids == DOMAIN mid.depth.bids
          asks == DOMAIN mid.depth.asks
      IN /\ (bids = {} \/ asks = {}) => mid.price = <<>>
         /\ (bids # {} /\ asks # {}) =>
              /\ Len(mid.price) = 1
              /\ \E a \in asks, b \in bids :
                   /\ \A x \in asks : a <= x
                   /\ \A x \in bids : b >= x
                   /\ 2 * mid.price[1] = a + b
         /\ mid.depth = C25_Example => 2 * mid.price[1] = 201 * PriceScale

\* mid_price has been called on bids {100: 2, 99: 1}, asks {101: 3}.
C25_Witness ==
    /\ mid.called
    /\ mid.depth = C25_Example
    /\ mid.price # <<>>

\* r is x rounded to a whole number, halves away from zero (x >= 0).
IsRounded(r, x) ==
    /\ r % QtyDenom = 0
    /\ 2 * (r - x) <= QtyDenom
    /\ 2 * (x - r) < QtyDenom

\* C26: with a contract size calc_qty returns qty * contract_size whatever
\* the size unit; without one it returns qty * price rounded to a whole
\* number when sizes are in quote currency, and qty itself otherwise.
C26_CalcQty ==
    qty_call.called =>
      LET c == qty_call IN
      /\ c.contract_size # <<>> => c.result = c.qty * c.contract_size[1]
      /\ (c.contract_size = <<>> /\ c.size_in_quote_ccy)
           => IsRounded(c.result, c.qty * c.price)
      /\ (c.contract_size = <<>> /\ ~c.size_in_quote_ccy) => c.result = c.qty

\* With sizes in quote currency and a contract size of 2, calc_qty has
\* returned twice the quantity, which is not what the unit conversion gives.
C26_Witness ==
    /\ qty_call.called
    /\ qty_call.size_in_quote_ccy
    /\ qty_call.contract_size = <<2>>
    /\ qty_call.result = 2 * qty_call.qty
    /\ ~IsRounded(qty_call.result, qty_call.qty * qty_call.price)

\* C27: rounding a rounded price to the same tick changes nothing, for
\* every price and tick size > 0, and so every key of the bids and asks maps
\* of the cache is a fixed point of rounding to the tick size of the stream.
C27_RoundingIdempotent ==
    /\ \A p \in 0..(4 * MaxPrice), t \in 1..(MaxPrice + 1) :
         round_to_min_tick(round_to_min_tick(p, t), t) = round_to_min_tick(p, t)
    /\ \A k \in DOMAIN cache.depth.bids \cup DOMAIN cache.depth.asks :
         round_to_min_tick(k, MinTick) = k

\* An update carrying a bid at a price that is not a multiple of the tick
\* has been applied, and the level is kept under the rounded price.
C27_Witness ==
    /\ new_depth.kind \in {"Snapshot", "Diff"}
    /\ \E i \in 1..Len(new_depth.payload.bids) :
         LET order == new_depth.payload.bids[i] IN
         /\ order.price % MinTick # 0
         /\ order.price \notin DOMAIN cache.depth.bids
         /\ \E k \in DOMAIN cache.depth.bids :
              /\ k % MinTick = 0
              /\ 2 * (k - order.price) <= MinTick
              /\ 2 * (order.price - k) < MinTick
              /\ cache.depth.bids[k] = order.qty

\* C28: the task has no terminal state: in every reachable state it can
\* take a step, or it waits for room in the output channel, which the
\* consumer makes; and under the fairness of SpecLive a Disconnected stream
\* eventually emits Connected.
C28_NeverStops ==
    /\ [](ENABLED TaskNext \/ (~CanSend /\ ENABLED Recv))
    /\ (state = "Disconnected") ~> (output # <<>> /\ Last(output) = EvConnected)

\* The stream has connected again after a drop: the Connected event is in
\* the channel while the buffer still holds a trade read on the earlier
\* connection.
C28_Witness ==
    /\ state = "Connected"
    /\ pc = "loop"
    /\ output = <<EvConnected>>
    /\ trades_buffer # <<>>

\* C29: a depth frame starts a resync exactly when prev_id = 0, the diff is
\* not stale and first_id > last_update_id + 1.  A resync is never started
\* with prev_id # 0, and never on a diff with last_update_id + 1 > final_id.
C29_ResyncOnlyFirstDiff ==
    [][ /\ (pc = "loop" /\ pc' = "resync_wait")
             => /\ AtReadFrame
                /\ prev_id = 0
                /\ ~IsStale(de_depth', orderbook.last_update_id)
                /\ de_depth'.first_id > orderbook.last_update_id + 1
                /\ ~(orderbook.last_update_id + 1 > de_depth'.final_id)
        /\ (AtReadFrame /\ prev_id = 0)
             => \A de \in PerpDepths :
                  ( /\ ~IsStale(de, orderbook.last_update_id)
                    /\ de.first_id > orderbook.last_update_id + 1
                    /\ HandlesDepth(de) )
                     => pc' = "resync_wait" /\ de_depth' = de
        /\ (AtReadFrame /\ prev_id # 0)
             => \A de \in PerpDepths :
                  ( /\ ~IsStale(de, orderbook.last_update_id)
                    /\ de.first_id > orderbook.last_update_id + 1
                    /\ HandlesDepth(de) )
                     => pc' = "loop" /\ resync_tasks' = resync_tasks ]_vars

\* A resync has just been started by a first diff that leaves a gap after
\* the snapshot.
C29_Witness ==
    /\ pc = "resync_wait"
    /\ state = "Connected"
    /\ prev_id = 0
    /\ orderbook.last_update_id > 0
    /\ de_depth.first_id > orderbook.last_update_id + 1

\* C30: every DepthReceived event is sent while the last of the Connected
\* and Disconnected events sent before it is Connected.
C30_DepthOnlyWhileConnected ==
    [][DepthEmitted => told = "Connected"]_vars

\* C31: when the market stream is Connected and about to read a frame,
\* prev_id is 0 or the last_update_id of the cache.
C31_PrevIdTracksCache ==
    AtReadFrame => (prev_id = 0 \/ prev_id = orderbook.last_update_id)

\* The read loop after a diff has been applied.
C31_Witness ==
    /\ AtReadFrame
    /\ prev_id # 0
    /\ prev_id = orderbook.last_update_id
    /\ output # <<>>
    /\ Last(output).tag = "DepthReceived"

\* The step sends a Connected event on the channel of the kline stream.
KlineConnectedEmitted ==
    /\ Len(kline_output') = Len(kline_output) + 1
    /\ Last(kline_output').tag = "Connected"

\* C32: in the event stream of either task a Connected event never follows
\* a Connected event without a Disconnected event between them, and a step
\* that takes the connection state from Connected to Disconnected sends a
\* Disconnected event.
C32_ConnectedSeparated ==
    [][ /\ ConnectedEmitted => told # "Connected"
        /\ KlineConnectedEmitted => kline_told # "Connected"
        /\ (state = "Connected" /\ state' = "Disconnected") => DisconnectedEmitted
        /\ (kline_state = "Connected" /\ kline_state' = "Disconnected")
              => /\ Len(kline_output') = Len(kline_output) + 1
                 /\ Last(kline_output').tag = "Disconnected" ]_vars

\* A task is about to connect again after its consumer has been told of a
\* connection and of its loss.
C32_Witness ==
    \/ /\ AtDisconnected
       /\ told = "Disconnected"
       /\ prev_id # 0
    \/ /\ KlineAtDisconnected
       /\ kline_told = "Disconnected"
       /\ kline_output # <<>>
       /\ Last(kline_output) = EvDisconnected("Connection closed")

\* C33: the trade buffer is empty whenever the market stream enters the
\* Connected state.
C33_BufferEmptyOnConnect ==
    [][(state = "Disconnected" /\ state' = "Connected") => trades_buffer' = <<>>]_vars

\* Every level the orders do not mention is in both maps or in neither, with
\* the same quantity.
Untouched(old, new, orders) ==
    \A k \in (DOMAIN old \cup DOMAIN new) \ Levels(orders) :
        /\ k \in DOMAIN old
        /\ k \in DOMAIN new
        /\ new[k] = old[k]

\* C34: a diff changes, on each side, only the levels its orders for that
\* side mention; a diff with no orders for a side leaves that side as it was.
C34_SidesIndependent ==
    new_depth.kind = "Diff" =>
        /\ Untouched(old_cache.depth.bids, cache.depth.bids, new_depth.payload.bids)
        /\ Untouched(old_cache.depth.asks, cache.depth.asks, new_depth.payload.asks)
        /\ new_depth.payload.bids = <<>> => cache.depth.bids = old_cache.depth.bids
        /\ new_depth.payload.asks = <<>> => cache.depth.asks = old_cache.depth.asks

\* A one-sided diff that changes the bid map, mentions a level the ask map
\* holds, and leaves one bid level alone.
C34_Witness ==
    /\ new_depth.kind = "Diff"
    /\ new_depth.payload.asks = <<>>
    /\ new_depth.payload.bids # <<>>
    /\ cache.depth.bids # old_cache.depth.bids
    /\ DOMAIN old_cache.depth.asks \cap Levels(new_depth.payload.bids) # {}
    /\ DOMAIN old_cache.depth.bids \ Levels(new_depth.payload.bids) # {}

\* The (ticker, timeframe) pairs of the subscription list.
Subscribed == {streams[i] : i \in 1..Len(streams)}

\* C35: every KlineReceived event on the channel of the kline stream names
\* a (ticker, timeframe) pair of the subscription list.
C35_KlineSubscribed ==
    \A i \in 1..Len(kline_output) :
        kline_output[i].tag = "KlineReceived"
            => [ticker |-> kline_output[i].ticker,
                timeframe |-> kline_output[i].timeframe] \in Subscribed

\* C36: for a range (start, end) the request has startTime = max(start,
\* now - thirty days) and limit = min((end - startTime) / interval, 500),
\* and no subtraction underflows.
C36_OiRequest ==
    (oi.called /\ oi.range # <<>>) =>
        LET start == oi.range[1][1]
            end   == oi.range[1][2]
            startTime == Max(start, oi.now - ThirtyDays)
        IN /\ oi.result.kind = "request"
           /\ oi.result.startTime = startTime
           /\ end >= startTime
           /\ oi.result.limit = Min((end - startTime) \div oi.interval_ms, OiLimitCap)

\* The active layout id is the id of a layout of the list.
ActiveListed ==
    /\ lm.active_layout_id # <<>>
    /\ lm.active_layout_id[1] \in Ids(lm.layouts)

\* C37: the active layout id always refers to a layout of the list, and a
\* RemoveLayout of the active layout changes neither the list nor the edit
\* mode.
C37_ActiveLayoutKept ==
    /\ []ActiveListed
    /\ [][\A id \in Uuids :
            (OnRemoveLayout(id) /\ lm.active_layout_id = <<id>>)
                => /\ lm'.layouts = lm.layouts
                   /\ lm'.edit_mode = lm.edit_mode]_vars

\* Another layout than the first is active, all Uuids have been made and a
\* layout has been removed.
C37_Witness ==
    /\ lm.active_layout_id = <<2>>
    /\ lm.uuids = MaxUuids
    /\ Len(lm.layouts) < MaxUuids
    /\ lm.edit_mode = EditingPreview

\* C38: no two layouts of the list share a name.
C38_NamesUnique ==
    \A i, j \in 1..Len(lm.layouts) :
        i # j => lm.layouts[i].name # lm.layouts[j].name

\* The StreamCfg of (exchange, ticker), if there is one.
CfgOf(self_streams, exchange, ticker) ==
    IF exchange \in DOMAIN self_streams /\ ticker \in DOMAIN self_streams[exchange]
    THEN <<self_streams[exchange][ticker]>>
    ELSE <<>>

\* C39: after ToggleStream(is_checked, (exchange, ticker)) the audio of that
\* stream is enabled exactly when is_checked, and the configuration of every
\* other (exchange, ticker) is as it was.
C39_ToggleSetsEnabled ==
    [][\A is_checked \in BOOLEAN, exchange \in Exchanges, ticker \in Tickers :
         OnToggleStream(is_checked, exchange, ticker)
            => /\ is_stream_audio_enabled(audio'.streams, exchange, ticker) = is_checked
               /\ \A e \in Exchanges, t \in Tickers :
                     <<e, t>> # <<exchange, ticker>>
                        => CfgOf(audio'.streams, e, t) = CfgOf(audio.streams, e, t)]_vars

============================================================================
